---- MODULE Spec2Model ----
(***************************************************************************)
(* Model of the document pipeline of ai_research: the stage workers        *)
(* (chunking, embedding, evaluation, extraction, conflict resolution),     *)
(* the shared pipeline helpers, the work queues, the healer's re-queue     *)
(* actions, the extraction store, the knowledge upserter and the           *)
(* researcher's rate limiter.                                              *)
(***************************************************************************)
EXTENDS Integers, Sequences, FiniteSets, TLC

(***************************************************************************)
(* Bounds of the model                                                     *)
(***************************************************************************)
MaxDocs == 1
MaxFaults == 1
MaxCrashes == 1
MaxHeals == 1
MaxChunks == 2
MaxCodesPerChunk == 2
MaxStoreRuns == 3
MaxCauses == 2
MaxEvals == 1
MaxResolveRuns == 2
MaxResearchers == 2
MaxTime == 3
MaxRateFaults == 1
MaxHealers == 2
MaxAlerts == 2
MaxHealTime == 2
MaxDepth == 2
MaxAge == 3
MaxKeys == 2
MaxCalls == 2
MaxRangeUrls == 3
MaxDirectives == 2
MaxQueueDepth == 1
MaxRecs == 1
MaxTasks == 2
MaxCommands == 2
MaxRetryCount == 5
MaxShutJobs == 2
MaxVerCodes == 3
MaxNoKey == 1
MaxNumCands == 2
MaxCrawlers == 2
MaxCrawlJobs == 3
MaxCodedPrefixes == 5
MaxTextLen == 6
MaxSize == 4
MaxCands == 2
MaxEvidence == 2

Docs == 1..MaxDocs

\* the local variable `job` holds no payload: None after pop_job timed out,
\* or not yet bound in a (re)started worker (`if job:` then raises NameError,
\* which the inner try swallows, so the error boundary does nothing either way)
NoJob == 0

(***************************************************************************)
(* Stages and queues                                                       *)
(***************************************************************************)
\* the stages that have a worker, in pipeline order
ProcStages == <<"chunking", "embedding", "evaluating", "extracting", "resolving">>

ProcStageSet == {ProcStages[i] : i \in 1..Len(ProcStages)}

\* one worker process per stage (Config.WORKER_QUEUE names its queue)
Workers == ProcStageSet

\* WORKER_QUEUE of a worker: jobs:chunk, jobs:embed, ... are named by stage here
QueueOf(w) == w

\* the order pending < chunking < ... < complete
StageRank(s) ==
    CASE s = "none" -> 0
      [] s = "pending" -> 1
      [] s = "chunking" -> 2
      [] s = "embedding" -> 3
      [] s = "evaluating" -> 4
      [] s = "extracting" -> 5
      [] s = "resolving" -> 6
      [] s = "complete" -> 7
      [] OTHER -> 0

\* next_stage_label passed to advance_to_next_stage by each worker
NextStageLabel(w) ==
    CASE w = "chunking" -> "embedding"
      [] w = "embedding" -> "evaluating"
      [] w = "evaluating" -> "extracting"
      [] w = "extracting" -> "resolving"
      [] OTHER -> "complete"

VARIABLES
    stage,        \* research.documents.processing_stage, "none" = no row yet
    hasChunks,    \* research.document_chunks has rows for the document
    log,          \* research.processing_log as a set of <<doc, stage, status>>
    nErrStage,    \* committed UPDATEs to 'error' by an error boundary, per doc
    nFailedLog,   \* committed 'failed' log rows, per doc
    queue,        \* the Redis lists jobs:<stage>
    pc,           \* position of each worker in its main loop
    job,          \* the local variable `job` of each worker's main()
    exc,          \* where the exception being handled was raised:
                  \* "poll" (pop_job), "process" (process_document before
                  \* the push), "push" (push_job), "none"
    faults,       \* exceptions raised in pop_job and process_document (bounded)
    crashes,      \* worker crashes so far (bounded)
    heals         \* healer actions so far (bounded)

pipeVars == <<stage, hasChunks, log, nErrStage, nFailedLog, queue, pc, job,
              exc, faults, crashes, heals>>

\* the refined schema written by the extraction worker
VARIABLES
    dtc_codes,    \* refined.dtc_codes: code -> [id, source_count], id 0 = no row
    dtc_sources,  \* refined.dtc_sources: set of <<dtc_id, chunk_id>>
    nextDtcId,    \* the id the next inserted refined.dtc_codes row gets
    storeRuns     \* store_extraction calls so far (bounded)

extVars == <<dtc_codes, dtc_sources, nextDtcId, storeRuns>>

\* the causes of one DTC on their way from the refined schema to the
\* knowledge graph (every statement involved is keyed by the DTC's id)
VARIABLES
    refined_causes,    \* refined.causes: set of [id, description, likelihood,
                       \* chunk]
    nextCauseId,       \* the id the next inserted refined.causes row gets
    chunk_eval,        \* research.chunk_evaluations: chunk -> [trust,
                       \* relevance] or NoEval
    knowledge_causes,  \* knowledge.dtc_possible_causes: lower(cause) ->
                       \* [cause, probability_weight, evidence_count,
                       \* avg_trust, avg_relevance] or NoRow
    resolvePc,         \* position of the conflict worker in process_document
    dirty,             \* data was extracted or evaluated since the last
                       \* committed resolve run
    evals,             \* evaluations written so far (bounded)
    resolveRuns,       \* resolve runs started so far (bounded)
    stored_causes,     \* the causes inserted so far, in order, each with its
                       \* chunk and the trust its chunk had then
    commits            \* knowledge upserts committed so far

resVars == <<refined_causes, nextCauseId, chunk_eval, knowledge_causes,
             resolvePc, dirty, evals, resolveRuns, stored_causes, commits>>

\* the researcher replicas and the shared counter store
VARIABLES
    now,           \* the clock, in ticks
    rate_total,    \* the key researcher:rate:total: [val, ttl], ttl 0 = absent
    rate_domain,   \* the keys researcher:rate:domain:<domain>
    rpc,           \* position of each researcher replica in submit_url
    rdomain,       \* the local variable `domain` of each replica
    last_submission, \* the module global _last_submission of each replica
    crawl_pushed,  \* pushes to jobs:crawl of the last hour: domain -> age in
                   \* ticks -> number of pushes
    rateFaults     \* exceptions raised inside submit_url so far (bounded)

rateVars == <<now, rate_total, rate_domain, rpc, rdomain, last_submission,
              crawl_pushed, rateFaults>>

\* the healer replicas, the alert queue and the healer's keys
VARIABLES
    alert_queue,      \* the list monitoring:alerts, oldest alert first
    nextAlertId,      \* the id of the next alert
    processed,        \* the keys healing:processed:<fingerprint>: remaining TTL
    action_count,     \* the key healing:action_count: [val, ttl]
    htime,            \* the healer's clock, in ticks
    hpc,              \* position of each healer replica in process_alert
    halert,           \* the local variable `alert` of each replica
    hanalysis,        \* the local variable `analysis` of each replica
    last_action_time, \* self.last_action_time of each replica
    healing_log,      \* the rows of research.healing_log
    analysed_fp,      \* fingerprint -> alerts analysed in the current TTL
    executed_ids,     \* the alerts an action was executed for
    executed_ages     \* executions of the last hour: age in ticks -> number

healVars == <<alert_queue, nextAlertId, processed, action_count, htime, hpc,
              halert, hanalysis, last_action_time, healing_log,
              analysed_fp, executed_ids, executed_ages>>

\* the monitor and what it observes
VARIABLES
    depth,             \* LLEN jobs:embed
    last_queue_depths, \* self.last_queue_depths["jobs:embed"], -1 = {}
    since_check,       \* now - self.last_check_time in ticks, -1 = None
    container_status,  \* what the probe of the backend container returns
    mdoc_stage,        \* processing_stage of a document, "none" = no document
    mdoc_age,          \* now - updated_at of the document, in ticks
    cycle_alerts,      \* recommended_action of the alerts of the latest cycle
    stall_span,        \* time spanned by the latest consecutive cycles that
                       \* saw the same non-zero depth
    stall_alerts,      \* stalled_queue alerts sent in those cycles
    unhealthy_for,     \* time since the first of the latest consecutive
                       \* cycles that saw the container unhealthy, -1 = none
    unhealthy_alerts   \* unhealthy_container alerts sent in those cycles

monVars == <<depth, last_queue_depths, since_check, container_status,
             mdoc_stage, mdoc_age, cycle_alerts, stall_span, stall_alerts,
             unhealthy_for, unhealthy_alerts>>

\* the OpenAI key manager and one caller of chat_completion
VARIABLES
    key_info,      \* the hashes verify:openai:key:<key_id>:info
    limited,       \* the keys the API answers with HTTP 429
    cpc,           \* position of the caller in chat_completion
    ckey,          \* the local variable key_id, 0 = None
    retry_depth,   \* the argument _retry_depth
    request_log,   \* the requests of the current call: key and HTTP status
    calls          \* calls of chat_completion so far (bounded)

keyVars == <<key_info, limited, cpc, ckey, retry_depth, request_log, calls>>

\* the researcher handling a directive of the orchestrator
VARIABLES
    dpc,          \* position in handle_research_directive
    durls,        \* codes of the target range still to be visited
    dcount,       \* codes of the target range
    dsubmitted,   \* the local variable `submitted`
    dremaining,   \* submissions left under MAX_URLS_PER_HOUR when the
                  \* directive arrived
    ddomroom,     \* submissions left for the domain when it arrived
    dcooled,      \* whether the cooldown was over when it arrived
    directives    \* directives handled so far (bounded)

dirVars == <<dpc, durls, dcount, dsubmitted, dremaining, ddomroom, dcooled,
             directives>>

\* one stage worker process and the signal that stops it
VARIABLES
    sworker,      \* which stage worker the process is, "none" = not started
    srunning,     \* GracefulShutdown._running
    spc,          \* position of the process in main()
    sjob,         \* whether a job is in flight (popped and not finished)
    squeue,       \* length of the worker's queue
    senqueued,    \* jobs pushed to the queue so far (bounded)
    ssignalled,   \* an OS signal was delivered
    sinflight,    \* a job was in flight when the signal was delivered
    sreleased     \* the database pool and the Redis client were closed

shutVars == <<sworker, srunning, spc, sjob, squeue, senqueued, ssignalled,
              sinflight, sreleased>>

\* the orchestrator: its observe-orient-decide-act cycle and its tasks
VARIABLES
    qdepth,          \* LLEN of each pipeline queue
    audit_report,    \* the latest row of research.audit_reports
    tasks,           \* research.orchestrator_tasks, one row per task id
    command_queue,   \* orchestrator:commands
    research_queue,  \* orchestrator:research
    audit_queue,     \* orchestrator:audit
    observed,        \* the system_state the last cycle observed
    decided,         \* the actions the last cycle decided
    executed,        \* the actions the last cycle executed
    commands_sent,   \* commands sent so far (bounded)
    cycle_end        \* how the last run_cycle() ended

orchVars == <<qdepth, audit_report, tasks, command_queue, research_queue,
              audit_queue, observed, decided, executed, commands_sent,
              cycle_end>>

\* one call of merger.merge_text_entities: its argument and its result
VARIABLES
    merge_in,        \* the candidates of the last merge_text_entities call
    merge_out,       \* the canonical entities it returned
    merge_rejected   \* the candidates it rejected

mergeVars == <<merge_in, merge_out, merge_rejected>>

\* two calls of scorer.compute_score on the same entity inputs
VARIABLES
    scored,          \* compute_score was called
    score_entity,    \* the entity inputs of the two calls
    score_ctx,       \* the vehicle context of the first call
    score_with_ctx,  \* S of the call with the vehicle context
    score_no_ctx     \* S of the call with the same inputs and no context

scoreVars == <<scored, score_entity, score_ctx, score_with_ctx, score_no_ctx>>

\* one call of chunk_text and the chunk rows written from its result
VARIABLES
    chunked,         \* chunk_text was called
    chunk_input,     \* its arguments: text, size, overlap
    chunk_rows,      \* the rows process_document wrote for its result
    chunk_returned   \* the loop of chunk_text ended

chunkVars == <<chunked, chunk_input, chunk_rows, chunk_returned>>

\* one call of coverage_analyzer._find_gap_ranges
VARIABLES
    cov_done,        \* _find_gap_ranges was called
    cov_codes,       \* the known code numbers of each prefix
    cov_gaps         \* the gap list it returned

covVars == <<cov_done, cov_codes, cov_gaps>>

\* the crawler replicas and the documents they create
VARIABLES
    crawl_queue,     \* jobs:crawl, the ids of crawl_queue rows
    crawl_status,    \* research.crawl_queue.status of each row
    documents,       \* research.documents: the rows the crawler created
    crawl_pc,             \* each crawler replica's position in process_crawl_job
    crawl_job,            \* the crawl row a replica works on
    crawl_hash,           \* the content_hash a replica computed
    crawl_existing,       \* the result of a replica's duplicate check
    chunk_jobs       \* the crawl rows whose document id was pushed to jobs:chunk

crawlVars == <<crawl_queue, crawl_status, documents, crawl_pc, crawl_job,
               crawl_hash, crawl_existing, chunk_jobs>>

\* one call of merger.merge_numeric_ranges
VARIABLES
    num_done,        \* merge_numeric_ranges was called
    num_cands,       \* the candidates of the call
    num_fields,      \* its value_fields
    num_result       \* the merged entity and the conflict flag it returned

numVars == <<num_done, num_cands, num_fields, num_result>>

\* one audit: get_pipeline_summary and the recommendations of its report
VARIABLES
    audited,         \* an audit ran
    audit_input,     \* what the analyzers of that audit read
    audit_health,    \* the health get_pipeline_summary reported
    audit_recs       \* the recommendation types of its report, in order

auditVars == <<audited, audit_input, audit_health, audit_recs>>

\* the verification worker and the DTC codes it verifies
VARIABLES
    ver_status,      \* refined.dtc_codes.verification_status of each code
    ver_broken,      \* the codes whose request the API fails or answers unparseably
    ver_pc,          \* the verifier's position: sleeping or inside verify_one
    ver_sel,         \* the code get_unverified_code returned
    ver_nokey        \* the cycles that found no API key available (bounded)

verVars == <<ver_status, ver_broken, ver_pc, ver_sel, ver_nokey>>

nonOrchVars ==
    <<pipeVars, extVars, resVars, rateVars, healVars, monVars,
      keyVars, dirVars, shutVars, mergeVars, scoreVars, chunkVars,
      covVars, crawlVars,
      numVars,
      auditVars,
      verVars>>

nonShutVars ==
    <<pipeVars, extVars, resVars, rateVars, healVars, monVars,
      keyVars, dirVars, orchVars, mergeVars, scoreVars, chunkVars,
      covVars, crawlVars,
      numVars,
      auditVars,
      verVars>>

nonMergeVars ==
    <<pipeVars, extVars, resVars, rateVars, healVars, monVars,
      keyVars, dirVars, shutVars, orchVars, scoreVars, chunkVars,
      covVars, crawlVars,
      numVars,
      auditVars,
      verVars>>

nonScoreVars ==
    <<pipeVars, extVars, resVars, rateVars, healVars, monVars,
      keyVars, dirVars, shutVars, orchVars, mergeVars, chunkVars,
      covVars, crawlVars,
      numVars,
      auditVars,
      verVars>>

nonChunkVars ==
    <<pipeVars, extVars, resVars, rateVars, healVars, monVars,
      keyVars, dirVars, shutVars, orchVars, mergeVars, scoreVars,
      covVars, crawlVars,
      numVars,
      auditVars,
      verVars>>

nonCovVars ==
    <<pipeVars, extVars, resVars, rateVars, healVars, monVars,
      keyVars, dirVars, shutVars, orchVars, mergeVars, scoreVars,
      chunkVars, crawlVars,
      numVars,
      auditVars,
      verVars>>

nonCrawlVars ==
    <<pipeVars, extVars, resVars, rateVars, healVars, monVars,
      keyVars, dirVars, shutVars, orchVars, mergeVars, scoreVars,
      chunkVars, covVars,
      numVars,
      auditVars,
      verVars>>

nonNumVars ==
    <<pipeVars, extVars, resVars, rateVars, healVars, monVars,
      keyVars, dirVars, shutVars, orchVars, mergeVars, scoreVars,
      chunkVars, covVars, crawlVars,
      auditVars,
      verVars>>

nonAuditVars ==
    <<pipeVars, extVars, resVars, rateVars, healVars, monVars,
        keyVars, dirVars, shutVars, orchVars, mergeVars, scoreVars,
        chunkVars, covVars, crawlVars, numVars,
      verVars>>

nonVerVars ==
    <<pipeVars, extVars, resVars, rateVars, healVars, monVars,
        keyVars, dirVars, shutVars, orchVars, mergeVars, scoreVars,
        chunkVars, covVars, crawlVars, numVars, auditVars>>

vars ==
    <<pipeVars, extVars, resVars, rateVars, healVars, monVars,
      keyVars, dirVars, orchVars, shutVars, mergeVars, scoreVars,
      chunkVars, covVars, crawlVars,
      numVars,
      auditVars,
      verVars>>

nonPipeVars ==
    <<extVars, resVars, rateVars, healVars, monVars, keyVars, dirVars,
      orchVars, shutVars, mergeVars, scoreVars, chunkVars, covVars,
      crawlVars,
      numVars,
      auditVars,
      verVars>>

nonExtVars ==
    <<pipeVars, resVars, rateVars, healVars, monVars, keyVars,
      dirVars, orchVars, shutVars, mergeVars, scoreVars, chunkVars,
      covVars, crawlVars,
      numVars,
      auditVars,
      verVars>>

nonResVars ==
    <<pipeVars, extVars, rateVars, healVars, monVars, keyVars,
      dirVars, orchVars, shutVars, mergeVars, scoreVars, chunkVars,
      covVars, crawlVars,
      numVars,
      auditVars,
      verVars>>

nonRateDirVars ==
    <<pipeVars, extVars, resVars, healVars, monVars, keyVars,
      orchVars, shutVars, mergeVars, scoreVars, chunkVars, covVars,
      crawlVars,
      numVars,
      auditVars,
      verVars>>

nonRateVars ==
    <<nonRateDirVars, dirVars>>

nonHealVars ==
    <<pipeVars, extVars, resVars, rateVars, monVars, keyVars, dirVars,
      orchVars, shutVars, mergeVars, scoreVars, chunkVars, covVars,
      crawlVars,
      numVars,
      auditVars,
      verVars>>

nonMonVars ==
    <<pipeVars, extVars, resVars, rateVars, healVars, keyVars,
      dirVars, orchVars, shutVars, mergeVars, scoreVars, chunkVars,
      covVars, crawlVars,
      numVars,
      auditVars,
      verVars>>

nonKeyVars ==
    <<pipeVars, extVars, resVars, rateVars, healVars, monVars,
      dirVars, orchVars, shutVars, mergeVars, scoreVars, chunkVars,
      covVars, crawlVars,
      numVars,
      auditVars,
      verVars>>

\* the positions of a worker inside process_document
InProcess == {"set_stage", "log_started", "work", "log_completed",
              "advance", "push"}

PipeInit ==
    /\ stage = [d \in Docs |-> "none"]
    /\ hasChunks = [d \in Docs |-> FALSE]
    /\ log = {}
    /\ nErrStage = [d \in Docs |-> 0]
    /\ nFailedLog = [d \in Docs |-> 0]
    /\ queue = [w \in Workers |-> <<>>]
    /\ pc = [w \in Workers |-> "poll"]
    /\ job = [w \in Workers |-> NoJob]
    /\ exc = [w \in Workers |-> "none"]
    /\ faults = 0
    /\ crashes = 0
    /\ heals = 0

\* push_job: LPUSH; together with BRPOP the list is a FIFO
push_job(q, w, d) == [q EXCEPT ![w] = Append(@, d)]

\* update_document_stage: unconditional UPDATE ... WHERE id = doc_id
update_document_stage(st, d, s) == [st EXCEPT ![d] = s]

\* log_processing: INSERT INTO research.processing_log
log_processing(lg, d, s, status) == lg \cup {<<d, s, status>>}

(***************************************************************************)
(* Document creation                                                       *)
(***************************************************************************)
\* POST /ingest: INSERT ... 'pending', then LPUSH jobs:chunk
ingest(d) ==
    /\ stage[d] = "none"
    /\ stage' = update_document_stage(stage, d, "pending")
    /\ queue' = push_job(queue, "chunking", d)
    /\ UNCHANGED <<hasChunks, log, nErrStage, nFailedLog, pc, job, exc,
                   faults, crashes, heals>>
    /\ UNCHANGED nonPipeVars

\* crawler: INSERT ... 'pending', push to jobs:chunk, log crawling/completed
process_crawl_job(d) ==
    /\ stage[d] = "none"
    /\ stage' = update_document_stage(stage, d, "pending")
    /\ queue' = push_job(queue, "chunking", d)
    /\ log' = log_processing(log, d, "crawling", "completed")
    /\ UNCHANGED <<hasChunks, nErrStage, nFailedLog, pc, job, exc,
                   faults, crashes, heals>>
    /\ UNCHANGED nonPipeVars

(***************************************************************************)
(* The main loop of a stage worker                                         *)
(***************************************************************************)
\* pop_job returns a payload: BRPOP removes it from the list
Poll(w) ==
    /\ pc[w] = "poll"
    /\ queue[w] # <<>>
    /\ job' = [job EXCEPT ![w] = Head(queue[w])]
    /\ queue' = [queue EXCEPT ![w] = Tail(@)]
    /\ pc' = [pc EXCEPT ![w] = "set_stage"]
    /\ UNCHANGED <<stage, hasChunks, log, nErrStage, nFailedLog, exc,
                   faults, crashes, heals>>
    /\ UNCHANGED nonPipeVars

\* pop_job returns None: the timeout expired on an empty list
PollNone(w) ==
    /\ pc[w] = "poll"
    /\ queue[w] = <<>>
    /\ job[w] # NoJob
    /\ job' = [job EXCEPT ![w] = NoJob]
    /\ UNCHANGED <<stage, hasChunks, log, nErrStage, nFailedLog, queue, pc,
                   exc, faults, crashes, heals>>
    /\ UNCHANGED nonPipeVars

\* pop_job raises (any error but redis ConnectionError): `job` is not
\* assigned in this iteration and the error boundary runs
PollRaise(w) ==
    /\ pc[w] = "poll"
    /\ faults < MaxFaults
    /\ faults' = faults + 1
    /\ pc' = [pc EXCEPT ![w] = "err_stage"]
    /\ exc' = [exc EXCEPT ![w] = "poll"]
    /\ UNCHANGED <<stage, hasChunks, log, nErrStage, nFailedLog, queue, job,
                   crashes, heals>>
    /\ UNCHANGED nonPipeVars

\* process_document: update_document_stage(doc_id, <own stage>)
SetStage(w) ==
    /\ pc[w] = "set_stage"
    /\ stage' = update_document_stage(stage, job[w], w)
    /\ pc' = [pc EXCEPT ![w] = "log_started"]
    /\ UNCHANGED <<hasChunks, log, nErrStage, nFailedLog, queue, job, exc,
                   faults, crashes, heals>>
    /\ UNCHANGED nonPipeVars

\* process_document: log_processing(doc_id, <own stage>, "started")
LogStarted(w) ==
    /\ pc[w] = "log_started"
    /\ log' = log_processing(log, job[w], w, "started")
    /\ pc' = [pc EXCEPT ![w] = "work"]
    /\ UNCHANGED <<stage, hasChunks, nErrStage, nFailedLog, queue, job, exc,
                   faults, crashes, heals>>
    /\ UNCHANGED nonPipeVars

\* embedding and evaluation raise ValueError when the document has no chunks
NoChunksError(w) ==
    w \in {"embedding", "evaluating"} /\ ~hasChunks[job[w]]

\* process_document: the stage's own work
Work(w) ==
    /\ pc[w] = "work"
    /\ IF NoChunksError(w)
         THEN /\ pc' = [pc EXCEPT ![w] = "err_stage"]
              /\ exc' = [exc EXCEPT ![w] = "process"]
              /\ UNCHANGED hasChunks
         ELSE /\ pc' = [pc EXCEPT ![w] = "log_completed"]
              /\ hasChunks' = IF w = "chunking"
                                THEN [hasChunks EXCEPT ![job[w]] = TRUE]
                                ELSE hasChunks
              /\ UNCHANGED exc
    /\ UNCHANGED <<stage, log, nErrStage, nFailedLog, queue, job,
                   faults, crashes, heals>>
    /\ UNCHANGED nonPipeVars

\* process_document: log_processing(doc_id, <own stage>, "completed", ...)
LogCompleted(w) ==
    /\ pc[w] = "log_completed"
    /\ log' = log_processing(log, job[w], w, "completed")
    /\ pc' = [pc EXCEPT ![w] = "advance"]
    /\ UNCHANGED <<stage, hasChunks, nErrStage, nFailedLog, queue, job, exc,
                   faults, crashes, heals>>
    /\ UNCHANGED nonPipeVars

\* advance_to_next_stage: update_document_stage(doc_id, next_stage_label);
\* the conflict worker has no next queue and sets 'complete' itself
Advance(w) ==
    /\ pc[w] = "advance"
    /\ stage' = update_document_stage(stage, job[w], NextStageLabel(w))
    /\ pc' = [pc EXCEPT ![w] = IF w = "resolving" THEN "poll" ELSE "push"]
    /\ UNCHANGED <<hasChunks, log, nErrStage, nFailedLog, queue, job, exc,
                   faults, crashes, heals>>
    /\ UNCHANGED nonPipeVars

\* advance_to_next_stage: push_job(queue, doc_id)
Push(w) ==
    /\ pc[w] = "push"
    /\ queue' = push_job(queue, NextStageLabel(w), job[w])
    /\ pc' = [pc EXCEPT ![w] = "poll"]
    /\ UNCHANGED <<stage, hasChunks, log, nErrStage, nFailedLog, job, exc,
                   faults, crashes, heals>>
    /\ UNCHANGED nonPipeVars

\* the statement at pc[w] raises (database or queue failure) without effect
Raise(w) ==
    /\ pc[w] \in InProcess
    /\ faults < MaxFaults
    /\ faults' = faults + 1
    /\ exc' = [exc EXCEPT ![w] = IF pc[w] = "push" THEN "push" ELSE "process"]
    /\ pc' = [pc EXCEPT ![w] = "err_stage"]
    /\ UNCHANGED <<stage, hasChunks, log, nErrStage, nFailedLog, queue, job,
                   crashes, heals>>
    /\ UNCHANGED nonPipeVars

\* except Exception: if job: update_document_stage(job, "error", ...)
ErrStage(w) ==
    /\ pc[w] = "err_stage"
    /\ IF job[w] \in Docs
         THEN /\ stage' = update_document_stage(stage, job[w], "error")
              /\ nErrStage' = [nErrStage EXCEPT ![job[w]] = @ + 1]
              /\ pc' = [pc EXCEPT ![w] = "err_log"]
              /\ UNCHANGED exc
         ELSE /\ pc' = [pc EXCEPT ![w] = "poll"]
              /\ exc' = [exc EXCEPT ![w] = "none"]
              /\ UNCHANGED <<stage, nErrStage>>
    /\ UNCHANGED <<hasChunks, log, nFailedLog, queue, job,
                   faults, crashes, heals>>
    /\ UNCHANGED nonPipeVars

\* except Exception: log_processing(job, <own stage>, "failed", ...)
ErrLog(w) ==
    /\ pc[w] = "err_log"
    /\ log' = log_processing(log, job[w], w, "failed")
    /\ nFailedLog' = [nFailedLog EXCEPT ![job[w]] = @ + 1]
    /\ pc' = [pc EXCEPT ![w] = "poll"]
    /\ exc' = [exc EXCEPT ![w] = "none"]
    /\ UNCHANGED <<stage, hasChunks, nErrStage, queue, job,
                   faults, crashes, heals>>
    /\ UNCHANGED nonPipeVars

\* a statement of the error boundary raises as well (the database is still
\* unreachable): except Exception: pass
ErrSwallow(w) ==
    /\ pc[w] \in {"err_stage", "err_log"}
    /\ job[w] \in Docs
    /\ pc' = [pc EXCEPT ![w] = "poll"]
    /\ exc' = [exc EXCEPT ![w] = "none"]
    /\ UNCHANGED <<stage, hasChunks, log, nErrStage, nFailedLog, queue, job,
                   faults, crashes, heals>>
    /\ UNCHANGED nonPipeVars

\* the worker process is killed mid-job and restarted: its locals are lost
Crash(w) ==
    /\ pc[w] # "poll"
    /\ crashes < MaxCrashes
    /\ crashes' = crashes + 1
    /\ pc' = [pc EXCEPT ![w] = "poll"]
    /\ job' = [job EXCEPT ![w] = NoJob]
    /\ exc' = [exc EXCEPT ![w] = "none"]
    /\ UNCHANGED <<stage, hasChunks, log, nErrStage, nFailedLog, queue,
                   faults, heals>>
    /\ UNCHANGED nonPipeVars

(***************************************************************************)
(* Healer actions                                                          *)
(***************************************************************************)
\* the orderings of a finite set (rows come back ORDER BY updated_at)
Orderings(S) ==
    {s \in [1..Cardinality(S) -> S] : \A i, j \in 1..Cardinality(S) :
                                          i # j => s[i] # s[j]}

\* requeue_documents(stage): LPUSH every document found in that stage
requeue_documents(s) ==
    /\ heals < MaxHeals
    /\ heals' = heals + 1
    /\ LET rows == {d \in Docs : stage[d] = s}
       IN /\ rows # {}
          /\ \E ord \in Orderings(rows) :
                queue' = [queue EXCEPT ![s] = @ \o ord]
    /\ UNCHANGED <<stage, hasChunks, log, nErrStage, nFailedLog, pc, job,
                   exc, faults, crashes>>
    /\ UNCHANGED nonPipeVars

\* requeue_error_documents(target_stage): reset every 'error' document to
\* the target stage and LPUSH it
requeue_error_documents(t) ==
    /\ heals < MaxHeals
    /\ heals' = heals + 1
    /\ LET rows == {d \in Docs : stage[d] = "error"}
       IN /\ rows # {}
          /\ stage' = [d \in Docs |-> IF d \in rows THEN t ELSE stage[d]]
          /\ \E ord \in Orderings(rows) :
                queue' = [queue EXCEPT ![t] = @ \o ord]
    /\ UNCHANGED <<hasChunks, log, nErrStage, nFailedLog, pc, job,
                   exc, faults, crashes>>
    /\ UNCHANGED nonPipeVars

(***************************************************************************)
(* The extraction store (store_extraction)                                 *)
(***************************************************************************)
Chunks == 1..MaxChunks

\* str.upper() on the characters used by the codes of the model
Upper(ch) ==
    IF ch = "p" THEN "P" ELSE ch

RECURSIVE LStrip(_)
\* remove leading blanks
LStrip(str) ==
    IF str # <<>> /\ Head(str) = " " THEN LStrip(Tail(str)) ELSE str

RECURSIVE RStrip(_)
\* remove trailing blanks
RStrip(str) ==
    IF str # <<>> /\ str[Len(str)] = " "
      THEN RStrip(SubSeq(str, 1, Len(str) - 1))
      ELSE str

\* str.strip()
Strip(str) ==
    RStrip(LStrip(str))

\* (dtc.get("code") or "").strip().upper()
NormCode(raw) ==
    LET t == Strip(raw) IN [i \in 1..Len(t) |-> Upper(t[i])]

\* the code strings the reasoning model may return, as character sequences
RawCodes ==
    {<<"P", "1">>, <<"p", "1">>, <<" ", "P", "1">>, <<"P", "2", " ">>,
     <<" ">>, <<>>}

\* the values of the unique column refined.dtc_codes.code
Codes == {NormCode(r) : r \in RawCodes} \ {<<>>}

\* the dtc_codes lists the reasoning model may return for one chunk
DtcLists ==
    UNION {[1..n -> RawCodes] : n \in 0..MaxCodesPerChunk}

RECURSIVE StoreDtcs(_, _, _, _, _)
\* the loop `for dtc in data.get("dtc_codes", [])` of store_extraction:
\* upsert into refined.dtc_codes, then link the row to the chunk
StoreDtcs(list, chunk, codes, sources, nextId) ==
    IF list = <<>>
      THEN [codes |-> codes, sources |-> sources, nextId |-> nextId]
      ELSE LET code == NormCode(Head(list))
           IN IF code = <<>>
                THEN StoreDtcs(Tail(list), chunk, codes, sources, nextId)
                ELSE LET isNew == codes[code].id = 0
                         dtc_id == IF isNew THEN nextId ELSE codes[code].id
                         count == IF isNew THEN 1
                                  ELSE codes[code].source_count + 1
                     IN StoreDtcs(Tail(list), chunk,
                                  [codes EXCEPT ![code] =
                                      [id |-> dtc_id, source_count |-> count]],
                                  sources \cup {<<dtc_id, chunk>>},
                                  IF isNew THEN nextId + 1 ELSE nextId)

\* store_extraction(chunk_id, data): one committed transaction
store_extraction(chunk, list) ==
    /\ storeRuns < MaxStoreRuns
    /\ storeRuns' = storeRuns + 1
    /\ LET r == StoreDtcs(list, chunk, dtc_codes, dtc_sources, nextDtcId)
       IN /\ dtc_codes' = r.codes
          /\ dtc_sources' = r.sources
          /\ nextDtcId' = r.nextId
    /\ UNCHANGED nonExtVars

\* store_extraction raises inside the transaction: conn.rollback()
store_extraction_rollback ==
    /\ storeRuns < MaxStoreRuns
    /\ storeRuns' = storeRuns + 1
    /\ UNCHANGED <<dtc_codes, dtc_sources, nextDtcId>>
    /\ UNCHANGED nonExtVars

ExtInit ==
    /\ dtc_codes = [c \in Codes |-> [id |-> 0, source_count |-> 0]]
    /\ dtc_sources = {}
    /\ nextDtcId = 1
    /\ storeRuns = 0

(***************************************************************************)
(* Resolution: de-duplication, merge and knowledge upsert of causes        *)
(***************************************************************************)
\* scores in [0, 1] are counted in units of 1/64
Unit == 64

\* COALESCE(ce.trust_score, 0.5), COALESCE(ce.relevance_score, 0.5)
DefaultScore == 32

NoEval == [trust |-> -1, relevance |-> -1]

NoRow == [cause |-> <<>>, probability_weight |-> 0, evidence_count |-> 0,
          avg_trust |-> 0, avg_relevance |-> 0]

\* the evaluations the reasoning model may give a chunk
EvalScores ==
    {[trust |-> 16, relevance |-> 48], [trust |-> 48, relevance |-> 16]}

\* the likelihood strings the reasoning model may return
Likelihoods == {"high", "low"}

\* _likelihood_to_weight, in units of 1/100
LikelihoodToWeight(lik) ==
    CASE lik = "high" -> 85
      [] lik = "medium" -> 55
      [] lik = "low" -> 25
      [] lik = "very high" -> 95
      [] lik = "very low" -> 10
      [] lik = "certain" -> 100
      [] lik = "unlikely" -> 15
      [] OTHER -> 50

\* the cause descriptions the reasoning model may return
RawDescs ==
    {<<"a">>, <<"A">>, <<"a", ".">>, <<" ", "b">>, <<" ">>}

\* str.lower() / SQL LOWER on the characters used by the descriptions
Lower(ch) ==
    IF ch = "A" THEN "a" ELSE ch

LowerStr(str) ==
    [i \in 1..Len(str) |-> Lower(str[i])]

\* re.sub(r'[^\w\s-]', '', text)
RemovePunct(str) ==
    SelectSeq(str, LAMBDA ch : ch # ".")

RECURSIVE CollapseWs(_)
\* re.sub(r'\s+', ' ', text)
CollapseWs(str) ==
    IF Len(str) < 2 THEN str
    ELSE IF str[1] = " " /\ str[2] = " " THEN CollapseWs(Tail(str))
    ELSE <<str[1]>> \o CollapseWs(Tail(str))

\* merger.normalize_text
normalize_text(text) ==
    IF text = <<>> THEN <<>>
    ELSE CollapseWs(RemovePunct(Strip(LowerStr(text))))

\* LOWER(TRIM(description)) of deduplicate_causes
LowerTrim(text) ==
    LowerStr(Strip(text))

\* the values of lower(cause), the conflict target of the knowledge upsert
CauseKeys ==
    {LowerStr(Strip(r)) : r \in RawDescs} \ {<<>>}

\* store_extraction: INSERT INTO refined.causes for a cause of the DTC
store_cause(raw, lik, chunk) ==
    /\ Strip(raw) # <<>>
    /\ nextCauseId <= MaxCauses
    /\ refined_causes' = refined_causes \cup
           {[id |-> nextCauseId, description |-> Strip(raw),
             likelihood |-> lik, chunk |-> chunk]}
    /\ nextCauseId' = nextCauseId + 1
    /\ dirty' = TRUE
    /\ stored_causes' =
           Append(stored_causes,
                  [description |-> Strip(raw), chunk |-> chunk,
                   trust |-> IF chunk_eval[chunk] = NoEval
                               THEN DefaultScore
                               ELSE chunk_eval[chunk].trust])
    /\ UNCHANGED <<chunk_eval, knowledge_causes, resolvePc, evals,
                   resolveRuns, commits>>
    /\ UNCHANGED nonResVars

\* evaluation worker: upsert into research.chunk_evaluations
evaluate_chunk(chunk, e) ==
    /\ evals < MaxEvals
    /\ evals' = evals + 1
    /\ chunk_eval' = [chunk_eval EXCEPT ![chunk] = e]
    /\ dirty' = TRUE
    /\ UNCHANGED <<refined_causes, nextCauseId, knowledge_causes, resolvePc,
                   resolveRuns, stored_causes, commits>>
    /\ UNCHANGED nonResVars

\* deduplicate_causes: DELETE the rows that share LOWER(TRIM(description))
\* with a row of lower id
deduplicate_causes ==
    /\ resolvePc = "idle"
    /\ resolveRuns < MaxResolveRuns
    /\ resolveRuns' = resolveRuns + 1
    /\ refined_causes' =
           {a \in refined_causes :
               ~\E b \in refined_causes :
                   /\ LowerTrim(a.description) = LowerTrim(b.description)
                   /\ a.id > b.id}
    /\ resolvePc' = "upsert"
    /\ UNCHANGED <<nextCauseId, chunk_eval, knowledge_causes, dirty, evals,
                   stored_causes, commits>>
    /\ UNCHANGED nonResVars

\* the trust and relevance joined to a cause row
TrustOf(c) ==
    IF chunk_eval[c.chunk] = NoEval THEN DefaultScore
    ELSE chunk_eval[c.chunk].trust

RelevanceOf(c) ==
    IF chunk_eval[c.chunk] = NoEval THEN DefaultScore
    ELSE chunk_eval[c.chunk].relevance

\* scorer.consensus_score, scaled by 6400
consensus_score(n) ==
    CASE n <= 0 -> 0
      [] n = 1 -> 37000
      [] n = 2 -> 58644
      [] n = 3 -> 74001
      [] n = 4 -> 85912
      [] OTHER -> 95644

\* scorer.compute_score of a cause candidate (evidence_count = 1, no vehicle
\* context), scaled by 6400
CandidateScore(c) ==
    (3250 * TrustOf(c) + 1750 * RelevanceOf(c)) + consensus_score(1)
        + 6 * 6400 + 640 * LikelihoodToWeight(c.likelihood)

\* merger.group_duplicates: the candidates that share a normalized text
Group(k) ==
    {c \in refined_causes : normalize_text(c.description) = k}

GroupKeys ==
    {normalize_text(c.description) : c \in refined_causes} \ {<<>>}

\* the members a group's sort by score can put first
TopScored(k) ==
    {c \in Group(k) : \A o \in Group(k) : CandidateScore(c) >= CandidateScore(o)}

RECURSIVE SumTrust(_)
\* sum(all_trust)
SumTrust(S) ==
    IF S = {} THEN 0
    ELSE LET x == CHOOSE y \in S : TRUE IN TrustOf(x) + SumTrust(S \ {x})

RECURSIVE SumRelevance(_)
\* sum(all_relevance)
SumRelevance(S) ==
    IF S = {} THEN 0
    ELSE LET x == CHOOSE y \in S : TRUE
         IN RelevanceOf(x) + SumRelevance(S \ {x})

\* merger.merge_text_entities: the canonical entity of a group with winner w
MergedEntity(k, w) ==
    LET n == Cardinality(Group(k))
    IN [cause |-> w.description,
        probability_weight |-> LikelihoodToWeight(w.likelihood),
        evidence_count |-> n,
        avg_trust |-> SumTrust(Group(k)) \div n,
        avg_relevance |-> SumRelevance(Group(k)) \div n]

Max(a, b) ==
    IF a >= b THEN a ELSE b

\* INSERT INTO knowledge.dtc_possible_causes ... ON CONFLICT
\* (dtc_master_id, lower(cause)) DO UPDATE
UpsertRow(old, e) ==
    IF old = NoRow THEN e
    ELSE [cause |-> old.cause,
          probability_weight |->
              Max(old.probability_weight, e.probability_weight),
          evidence_count |-> old.evidence_count + e.evidence_count,
          avg_trust |-> (old.avg_trust + e.avg_trust) \div 2,
          avg_relevance |-> (old.avg_relevance + e.avg_relevance) \div 2]

\* KnowledgeUpserter._upsert_causes, committed by process_all
upsert_causes ==
    /\ resolvePc = "upsert"
    /\ \E winner \in [GroupKeys -> refined_causes] :
          /\ \A k \in GroupKeys : winner[k] \in TopScored(k)
          /\ knowledge_causes' =
                 [key \in CauseKeys |->
                     IF \E k \in GroupKeys :
                            LowerStr(winner[k].description) = key
                       THEN LET k == CHOOSE g \in GroupKeys :
                                        LowerStr(winner[g].description) = key
                            IN UpsertRow(knowledge_causes[key],
                                         MergedEntity(k, winner[k]))
                       ELSE knowledge_causes[key]]
    /\ resolvePc' = "idle"
    /\ dirty' = FALSE
    /\ commits' = commits + 1
    /\ UNCHANGED <<refined_causes, nextCauseId, chunk_eval, evals,
                   resolveRuns, stored_causes>>
    /\ UNCHANGED nonResVars

\* process_all raises: conn.rollback(), and run_knowledge_graph_upsert
\* swallows the exception
upsert_rollback ==
    /\ resolvePc = "upsert"
    /\ resolvePc' = "idle"
    /\ UNCHANGED <<refined_causes, nextCauseId, chunk_eval, knowledge_causes,
                   dirty, evals, resolveRuns, stored_causes, commits>>
    /\ UNCHANGED nonResVars

ResInit ==
    /\ refined_causes = {}
    /\ nextCauseId = 1
    /\ chunk_eval = [c \in Chunks |-> NoEval]
    /\ knowledge_causes = [key \in CauseKeys |-> NoRow]
    /\ resolvePc = "idle"
    /\ dirty = FALSE
    /\ evals = 0
    /\ resolveRuns = 0
    /\ stored_causes = <<>>
    /\ commits = 0

(***************************************************************************)
(* The researcher's rate limiter (check_rate_limit, submit_url)            *)
(***************************************************************************)
\* limits as configured through the environment (MAX_URLS_PER_HOUR,
\* MAX_PER_DOMAIN_PER_HOUR, RESEARCH_COOLDOWN); one tick of the clock is
\* 1200 seconds, so the 3600 seconds of the counters' TTL are three ticks
MAX_URLS_PER_HOUR == 3

MAX_PER_DOMAIN_PER_HOUR == 2

COOLDOWN_SECONDS == 1

HourTicks == 3

Researchers == 1..MaxResearchers

\* the host parts of the URLs handed to submit_url
Hosts == {"a", "A", "b", ""}

\* source_registry.get_domain: urlparse(url).netloc.lower()
get_domain(host) ==
    Lower(host)

Domains == {get_domain(h) : h \in Hosts} \ {""}

NoKey == [val |-> 0, ttl |-> 0]

Ages == 0..(HourTicks - 1)

\* check_rate_limit(domain): the two counter reads and the cooldown test
check_rate_limit(r, domain) ==
    /\ ~(rate_total # NoKey /\ rate_total.val >= MAX_URLS_PER_HOUR)
    /\ ~(rate_domain[domain] # NoKey
           /\ rate_domain[domain].val >= MAX_PER_DOMAIN_PER_HOUR)
    /\ ~(now - last_submission[r] < COOLDOWN_SECONDS)

\* submit_url up to the rate check: return None without a domain or when
\* rate limited, else go on to the insert
submit_url(r, host) ==
    /\ rpc[r] = "idle"
    /\ LET domain == get_domain(host)
       IN IF domain # "" /\ check_rate_limit(r, domain)
            THEN /\ rpc' = [rpc EXCEPT ![r] = "insert"]
                 /\ rdomain' = [rdomain EXCEPT ![r] = domain]
            ELSE UNCHANGED <<rpc, rdomain>>
    /\ UNCHANGED <<now, rate_total, rate_domain, last_submission,
                   crawl_pushed, rateFaults>>
    /\ UNCHANGED nonRateVars

\* INSERT INTO research.crawl_queue ... ON CONFLICT (url) DO NOTHING:
\* a row comes back for a new URL, none for a known one (return None)
InsertCrawl(r, isNew) ==
    /\ rpc[r] = "insert"
    /\ rpc' = [rpc EXCEPT ![r] = IF isNew THEN "push" ELSE "idle"]
    /\ UNCHANGED <<now, rate_total, rate_domain, rdomain, last_submission,
                   crawl_pushed, rateFaults>>
    /\ UNCHANGED nonRateVars

\* push_job("jobs:crawl", actual_id)
PushCrawl(r) ==
    /\ rpc[r] = "push"
    /\ crawl_pushed' = [crawl_pushed EXCEPT ![rdomain[r]][0] = @ + 1]
    /\ rpc' = [rpc EXCEPT ![r] = "register"]
    /\ UNCHANGED <<now, rate_total, rate_domain, rdomain, last_submission,
                   rateFaults>>
    /\ UNCHANGED nonRateVars

\* register_domain(domain)
RegisterDomain(r) ==
    /\ rpc[r] = "register"
    /\ rpc' = [rpc EXCEPT ![r] = "incr"]
    /\ UNCHANGED <<now, rate_total, rate_domain, rdomain, last_submission,
                   crawl_pushed, rateFaults>>
    /\ UNCHANGED nonRateVars

\* INCR and EXPIRE 3600 on a key
IncrKey(key) ==
    [val |-> key.val + 1, ttl |-> HourTicks]

\* increment_rate_counters(domain): one MULTI/EXEC pipeline, then
\* _last_submission = time.time()
increment_rate_counters(r) ==
    /\ rpc[r] = "incr"
    /\ rate_total' = IncrKey(rate_total)
    /\ rate_domain' = [rate_domain EXCEPT ![rdomain[r]] = IncrKey(@)]
    /\ last_submission' = [last_submission EXCEPT ![r] = now]
    /\ rpc' = [rpc EXCEPT ![r] = "idle"]
    /\ UNCHANGED <<now, rdomain, crawl_pushed, rateFaults>>
    /\ UNCHANGED nonRateVars

\* a statement inside the try of submit_url raises: except Exception:
\* return None
SubmitRaise(r) ==
    /\ rpc[r] \in {"insert", "push", "register", "incr"}
    /\ rateFaults < MaxRateFaults
    /\ rateFaults' = rateFaults + 1
    /\ rpc' = [rpc EXCEPT ![r] = "idle"]
    /\ UNCHANGED <<now, rate_total, rate_domain, rdomain, last_submission,
                   crawl_pushed>>
    /\ UNCHANGED nonRateVars

\* a key's TTL runs down; the key is deleted when it reaches zero
AgeKey(key) ==
    IF key.ttl <= 1 THEN NoKey ELSE [key EXCEPT !.ttl = @ - 1]

\* the clock advances by one tick
Tick ==
    /\ now < MaxTime
    /\ now' = now + 1
    /\ rate_total' = AgeKey(rate_total)
    /\ rate_domain' = [d \in Domains |-> AgeKey(rate_domain[d])]
    /\ crawl_pushed' = [d \in Domains |->
                           [a \in Ages |-> IF a = 0 THEN 0
                                           ELSE crawl_pushed[d][a - 1]]]
    /\ UNCHANGED <<rpc, rdomain, last_submission, rateFaults>>
    /\ UNCHANGED nonRateVars

RateInit ==
    /\ now = 0
    /\ rate_total = NoKey
    /\ rate_domain = [d \in Domains |-> NoKey]
    /\ rpc = [r \in Researchers |-> "idle"]
    /\ rdomain = [r \in Researchers |-> ""]
    /\ last_submission = [r \in Researchers |-> 0 - COOLDOWN_SECONDS]
    /\ crawl_pushed = [d \in Domains |-> [a \in Ages |-> 0]]
    /\ rateFaults = 0

(***************************************************************************)
(* The healer (HealingAgent.process_alert and its safety gates)            *)
(***************************************************************************)
\* limits as configured through the environment (MAX_ACTIONS_PER_HOUR,
\* COOLDOWN_BETWEEN_ACTIONS), in ticks of 1800 seconds; a fingerprint key
\* set with a TTL of 600 seconds is gone at the next tick
MAX_ACTIONS_PER_HOUR == 1

COOLDOWN_BETWEEN_ACTIONS == 1

IdemTtlTicks == 1

HealHourTicks == 2

HealAges == 0..(HealHourTicks - 1)

FingerprintDetails == 100

\* AUTO_FIX_ENABLED (default "true")
auto_fix_enabled == TRUE

\* confidence >= 0.7, confidences in hundredths
ConfidenceThreshold == 70

Healers == 1..MaxHealers

AlertIds == 1..MaxAlerts

\* the alerts the monitor emits: type, component, details
AlertKinds ==
    { [type |-> "stalled_queue", component |-> "jobs:embed", details |-> <<"3">>],
      [type |-> "stuck_documents", component |-> "pipeline", details |-> <<>>] }

NoAlert == [id |-> 0, kind |-> <<>>, at |-> 0]

Min(a, b) ==
    IF a <= b THEN a ELSE b

\* _create_alert_fingerprint: type | component | details[:100] (the md5 of
\* the joined string stands for the string)
_create_alert_fingerprint(kind) ==
    <<kind.type, kind.component,
      SubSeq(kind.details, 1, Min(Len(kind.details), FingerprintDetails))>>

Fingerprints == {_create_alert_fingerprint(k) : k \in AlertKinds}

\* the actions the reasoning model proposes, split at ':'
Actions ==
    { <<"restart_worker", "embed">>, <<"restart_container", "embed">>,
      <<"analyze_errors", "embedding">> }

Confidences == {60, 70}

NoAnalysis == [action |-> <<>>, confidence |-> 0]

Analyses == [action : Actions, confidence : Confidences]

\* AUTO_FIX_ALLOW and AUTO_FIX_DENY (the defaults)
allow_list == {"restart_worker", "requeue_documents", "clear_stale_locks"}

deny_list == {"restart_container", "database_operations", "delete_data"}

\* is_action_allowed without the allow-list test
is_action_allowed_deny_only(action) ==
    action[1] \notin deny_list

\* is_action_allowed(action): the deny list takes precedence
is_action_allowed(action) ==
    LET action_type == action[1]
    IN IF action_type \in deny_list THEN FALSE
       ELSE action_type \in allow_list

\* the monitor pushes an alert to monitoring:alerts
emit_alert(kind) ==
    /\ nextAlertId <= MaxAlerts
    /\ alert_queue' = Append(alert_queue, [id |-> nextAlertId, kind |-> kind,
                                             at |-> htime])
    /\ nextAlertId' = nextAlertId + 1
    /\ UNCHANGED <<processed, action_count, htime, hpc, halert, hanalysis,
                   last_action_time, healing_log, analysed_fp,
                   executed_ids, executed_ages>>
    /\ UNCHANGED nonHealVars

\* run: pop_job(self.alert_queue) yields an alert
PopAlert(h) ==
    /\ hpc[h] = "idle"
    /\ alert_queue # <<>>
    /\ halert' = [halert EXCEPT ![h] = Head(alert_queue)]
    /\ alert_queue' = Tail(alert_queue)
    /\ hpc' = [hpc EXCEPT ![h] = "idem_exists"]
    /\ UNCHANGED <<nextAlertId, processed, action_count, htime, hanalysis,
                   last_action_time, healing_log, analysed_fp,
                   executed_ids, executed_ages>>
    /\ UNCHANGED nonHealVars

\* check_idempotency: redis_client.exists(key); an existing key returns
\* False and process_alert skips the alert
IdemExists(h) ==
    /\ hpc[h] = "idem_exists"
    /\ LET fp == _create_alert_fingerprint(halert[h].kind)
       IN IF processed[fp] > 0
            THEN /\ hpc' = [hpc EXCEPT ![h] = "idle"]
                 /\ halert' = [halert EXCEPT ![h] = NoAlert]
            ELSE /\ hpc' = [hpc EXCEPT ![h] = "idem_setex"]
                 /\ UNCHANGED halert
    /\ UNCHANGED <<alert_queue, nextAlertId, processed, action_count, htime,
                   hanalysis, last_action_time, healing_log,
                   analysed_fp, executed_ids, executed_ages>>
    /\ UNCHANGED nonHealVars

\* check_idempotency: redis_client.setex(key, 600, "1")
IdemSetex(h) ==
    /\ hpc[h] = "idem_setex"
    /\ processed' = [processed EXCEPT
                       ![_create_alert_fingerprint(halert[h].kind)] = IdemTtlTicks]
    /\ hpc' = [hpc EXCEPT ![h] = "analyze"]
    /\ UNCHANGED <<alert_queue, nextAlertId, action_count, htime, halert,
                   hanalysis, last_action_time, healing_log,
                   analysed_fp, executed_ids, executed_ages>>
    /\ UNCHANGED nonHealVars

\* log_healing_action(alert_id, ..., decision): one row of the healing log
log_healing_action(lg, alert_id, decision) ==
    lg \cup {[alert_id |-> alert_id, decision |-> decision]}

\* analyze_alert_with_llm returns None: the decision `skipped` is logged
AnalyzeFailed(h) ==
    /\ hpc[h] = "analyze"
    /\ healing_log' = log_healing_action(healing_log, halert[h].id, "skipped")
    /\ hpc' = [hpc EXCEPT ![h] = "idle"]
    /\ halert' = [halert EXCEPT ![h] = NoAlert]
    /\ UNCHANGED <<alert_queue, nextAlertId, processed, action_count, htime,
                   hanalysis, last_action_time, analysed_fp,
                   executed_ids, executed_ages>>
    /\ UNCHANGED nonHealVars

\* analyze_alert_with_llm returns an analysis
Analyze(h, analysis) ==
    /\ hpc[h] = "analyze"
    /\ hanalysis' = [hanalysis EXCEPT ![h] = analysis]
    /\ analysed_fp' =
         IF halert[h].at = htime
           THEN [analysed_fp EXCEPT
                   ![_create_alert_fingerprint(halert[h].kind)] = @ + 1]
           ELSE analysed_fp
    /\ hpc' = [hpc EXCEPT ![h] = "allowed"]
    /\ UNCHANGED <<alert_queue, nextAlertId, processed, action_count, htime,
                   halert, last_action_time, healing_log, executed_ids,
                   executed_ages>>
    /\ UNCHANGED nonHealVars

\* the allow-list gate: an action that is not allowed is escalated
AllowGate(h) ==
    /\ hpc[h] = "allowed"
    /\ IF is_action_allowed(hanalysis[h].action)
         THEN /\ hpc' = [hpc EXCEPT ![h] = "rate"]
              /\ UNCHANGED <<halert, hanalysis, healing_log>>
         ELSE /\ healing_log' = log_healing_action(healing_log, halert[h].id, "escalated")
              /\ hpc' = [hpc EXCEPT ![h] = "idle"]
              /\ halert' = [halert EXCEPT ![h] = NoAlert]
              /\ hanalysis' = [hanalysis EXCEPT ![h] = NoAnalysis]
    /\ UNCHANGED <<alert_queue, nextAlertId, processed, action_count, htime,
                   last_action_time, analysed_fp, executed_ids,
                   executed_ages>>
    /\ UNCHANGED nonHealVars

\* check_rate_limits(): the count read from healing:action_count is below
\* MAX_ACTIONS_PER_HOUR (an absent key counts 0)
check_rate_limits ==
    ~(action_count.val >= MAX_ACTIONS_PER_HOUR)

\* the rate-limit gate: at the limit the action is deferred
RateGate(h) ==
    /\ hpc[h] = "rate"
    /\ IF check_rate_limits
         THEN /\ hpc' = [hpc EXCEPT ![h] = "cooldown"]
              /\ UNCHANGED <<halert, hanalysis, healing_log>>
         ELSE /\ healing_log' = log_healing_action(healing_log, halert[h].id, "deferred")
              /\ hpc' = [hpc EXCEPT ![h] = "idle"]
              /\ halert' = [halert EXCEPT ![h] = NoAlert]
              /\ hanalysis' = [hanalysis EXCEPT ![h] = NoAnalysis]
    /\ UNCHANGED <<alert_queue, nextAlertId, processed, action_count, htime,
                   last_action_time, analysed_fp, executed_ids,
                   executed_ages>>
    /\ UNCHANGED nonHealVars

\* confidence >= 0.7
ConfidenceOk(confidence) ==
    confidence >= ConfidenceThreshold

\* the cooldown (time.sleep until it is over), then the decision: execute
\* when auto-fix is enabled and the confidence suffices, else escalate
Decide(h) ==
    /\ hpc[h] = "cooldown"
    /\ \/ last_action_time[h] < 0
       \/ ~(htime - last_action_time[h] < COOLDOWN_BETWEEN_ACTIONS)
    /\ IF auto_fix_enabled /\ ConfidenceOk(hanalysis[h].confidence)
         THEN /\ hpc' = [hpc EXCEPT ![h] = "execute"]
              /\ UNCHANGED <<halert, hanalysis, healing_log>>
         ELSE /\ healing_log' = log_healing_action(healing_log, halert[h].id, "escalated")
              /\ hpc' = [hpc EXCEPT ![h] = "idle"]
              /\ halert' = [halert EXCEPT ![h] = NoAlert]
              /\ hanalysis' = [hanalysis EXCEPT ![h] = NoAnalysis]
    /\ UNCHANGED <<alert_queue, nextAlertId, processed, action_count, htime,
                   last_action_time, analysed_fp, executed_ids,
                   executed_ages>>
    /\ UNCHANGED nonHealVars

\* execute_healing_action, the `executed` log row and
\* self.last_action_time = datetime.now()
Execute(h) ==
    /\ hpc[h] = "execute"
    /\ executed_ids' = executed_ids \cup {halert[h].id}
    /\ executed_ages' = [executed_ages EXCEPT ![0] = @ + 1]
    /\ healing_log' = log_healing_action(healing_log, halert[h].id, "executed")
    /\ last_action_time' = [last_action_time EXCEPT ![h] = htime]
    /\ hpc' = [hpc EXCEPT ![h] = "record"]
    /\ UNCHANGED <<alert_queue, nextAlertId, processed, action_count, htime,
                   halert, hanalysis, analysed_fp>>
    /\ UNCHANGED nonHealVars

\* record_action: INCR and EXPIRE 3600 on healing:action_count
record_action(h) ==
    /\ hpc[h] = "record"
    /\ action_count' = [val |-> action_count.val + 1, ttl |-> HealHourTicks]
    /\ hpc' = [hpc EXCEPT ![h] = "idle"]
    /\ halert' = [halert EXCEPT ![h] = NoAlert]
    /\ hanalysis' = [hanalysis EXCEPT ![h] = NoAnalysis]
    /\ UNCHANGED <<alert_queue, nextAlertId, processed, htime,
                   last_action_time, healing_log, analysed_fp,
                   executed_ids, executed_ages>>
    /\ UNCHANGED nonHealVars

\* the healer's clock advances by one tick; keys run down
HealTick ==
    /\ htime < MaxHealTime
    /\ htime' = htime + 1
    /\ action_count' = AgeKey(action_count)
    /\ processed' = [fp \in Fingerprints |->
                        IF processed[fp] <= 1 THEN 0 ELSE processed[fp] - 1]
    /\ analysed_fp' = [fp \in Fingerprints |-> 0]
    /\ executed_ages' = [a \in HealAges |-> IF a = 0 THEN 0
                                        ELSE executed_ages[a - 1]]
    /\ UNCHANGED <<alert_queue, nextAlertId, hpc, halert, hanalysis,
                   last_action_time, healing_log, executed_ids>>
    /\ UNCHANGED nonHealVars

HealInit ==
    /\ alert_queue = <<>>
    /\ nextAlertId = 1
    /\ processed = [fp \in Fingerprints |-> 0]
    /\ action_count = NoKey
    /\ htime = 0
    /\ hpc = [h \in Healers |-> "idle"]
    /\ halert = [h \in Healers |-> NoAlert]
    /\ hanalysis = [h \in Healers |-> NoAnalysis]
    /\ last_action_time = [h \in Healers |-> -1]
    /\ healing_log = {}
    /\ analysed_fp = [fp \in Fingerprints |-> 0]
    /\ executed_ids = {}
    /\ executed_ages = [a \in HealAges |-> 0]

(***************************************************************************)
(* The monitor (MonitoringAgent.run_monitoring_cycle and its detectors)    *)
(***************************************************************************)
\* thresholds in ticks of 900 seconds: QUEUE_STALL_THRESHOLD and
\* UNHEALTHY_CONTAINER_GRACE_PERIOD as configured through the environment,
\* the 30 minutes of the stuck-document query
QUEUE_STALL_THRESHOLD == 2

grace_period == 1

StuckCutoff == 2

\* time elapsed between two statements of one monitoring cycle
CycleElapsed == 0

\* the queue the monitor watches, split at ':'
MonQueue == <<"jobs", "embed">>

MonContainer == "backend"

MonStages == {"none", "pending", "extracting", "complete", "error"}

\* saturating addition of ages
AgePlus(a, b) ==
    IF a + b > MaxAge THEN MaxAge ELSE a + b

\* detect_stalled_queues(current_depths, previous_depths, last_check_time)
detect_stalled_queues(current, previous, time_since_last_check) ==
    IF previous = -1 \/ time_since_last_check = -1 THEN {}
    ELSE IF time_since_last_check < QUEUE_STALL_THRESHOLD THEN {}
    ELSE IF current = 0 THEN {}
    ELSE IF current > 0 /\ current = previous
           THEN {<<"restart_worker", MonQueue[2]>>}
           ELSE {}

\* collect_container_health: a probe that fails reports unhealthy with
\* unhealthy_since = datetime.now(); the age of unhealthy_since when the
\* detector runs is the time elapsed inside the cycle
collect_container_health ==
    IF container_status = "healthy"
      THEN [status |-> "healthy", unhealthy_age |-> -1]
      ELSE [status |-> "unhealthy", unhealthy_age |-> CycleElapsed]

\* detect_unhealthy_containers(container_health)
detect_unhealthy_containers(health) ==
    IF /\ health.status = "unhealthy"
       /\ health.unhealthy_age # -1
       /\ health.unhealthy_age > grace_period
      THEN {<<"restart_container", MonContainer>>}
      ELSE {}

\* the stages the stuck-document query leaves out
NotStuckStages == {"completed", "error", "pending"}

\* rows that can be subscripted by a column name
RowsByName_dict == TRUE

\* rows of shared.db.execute_query are tuples (the default cursor):
\* subscripting one by a column name raises TypeError
RowsByName == FALSE

\* collect_document_stats: the stage counts, then the documents with
\* updated_at < now - 30 minutes in a stage the query does not leave out;
\* any exception yields no stuck documents
collect_document_stats ==
    IF mdoc_stage = "none" THEN {}
    ELSE IF ~RowsByName THEN {}
    ELSE IF mdoc_stage \notin NotStuckStages /\ mdoc_age > StuckCutoff
           THEN {mdoc_stage}
           ELSE {}

\* detect_stuck_documents(document_stats)
detect_stuck_documents(stuck) ==
    {<<"requeue_documents", st>> : st \in stuck}

\* run_monitoring_cycle: collect, detect, send the alerts, remember the
\* depths and the time of the check
run_monitoring_cycle ==
    /\ since_check # 0
    /\ LET stalled == detect_stalled_queues(depth, last_queue_depths,
                                            since_check)
           unhealthy == detect_unhealthy_containers(collect_container_health)
           stuck == detect_stuck_documents(collect_document_stats)
           sameDepth == depth > 0 /\ depth = last_queue_depths
                          /\ since_check # -1
       IN /\ cycle_alerts' = stalled \cup unhealthy \cup stuck
          /\ stall_span' = IF sameDepth THEN AgePlus(stall_span, since_check)
                           ELSE 0
          /\ stall_alerts' = IF stalled = {}
                               THEN (IF sameDepth THEN stall_alerts ELSE 0)
                               ELSE IF sameDepth /\ stall_alerts > 0 THEN 2
                               ELSE 1
          /\ unhealthy_for' = IF container_status = "healthy" THEN -1
                              ELSE IF unhealthy_for = -1 THEN 0
                              ELSE unhealthy_for
          /\ unhealthy_alerts' = IF container_status = "healthy" THEN 0
                                 ELSE IF unhealthy = {} THEN unhealthy_alerts
                                 ELSE 1
    /\ last_queue_depths' = depth
    /\ since_check' = 0
    /\ UNCHANGED <<depth, container_status, mdoc_stage, mdoc_age>>
    /\ UNCHANGED nonMonVars

\* the stage workers move jobs:embed
QueueChange(d) ==
    /\ d # depth
    /\ depth' = d
    /\ UNCHANGED <<last_queue_depths, since_check, container_status,
                   mdoc_stage, mdoc_age, cycle_alerts, stall_span,
                   stall_alerts, unhealthy_for, unhealthy_alerts>>
    /\ UNCHANGED nonMonVars

\* the container starts or stops answering its health probe
ContainerChange(st) ==
    /\ st # container_status
    /\ container_status' = st
    /\ UNCHANGED <<depth, last_queue_depths, since_check, mdoc_stage,
                   mdoc_age, cycle_alerts, stall_span, stall_alerts,
                   unhealthy_for, unhealthy_alerts>>
    /\ UNCHANGED nonMonVars

\* update_document_stage on the document: the stage and updated_at = NOW()
DocChange(st) ==
    /\ st # "none"
    /\ mdoc_stage' = st
    /\ mdoc_age' = 0
    /\ UNCHANGED <<depth, last_queue_depths, since_check, container_status,
                   cycle_alerts, stall_span, stall_alerts, unhealthy_for,
                   unhealthy_alerts>>
    /\ UNCHANGED nonMonVars

\* one tick passes
MonTick ==
    /\ since_check' = IF since_check = -1 THEN -1 ELSE AgePlus(since_check, 1)
    /\ mdoc_age' = IF mdoc_stage = "none" THEN 0 ELSE AgePlus(mdoc_age, 1)
    /\ unhealthy_for' = IF unhealthy_for = -1 THEN -1
                        ELSE AgePlus(unhealthy_for, 1)
    /\ UNCHANGED <<depth, last_queue_depths, container_status, mdoc_stage,
                   cycle_alerts, stall_span, stall_alerts, unhealthy_alerts>>
    /\ UNCHANGED nonMonVars

MonInit ==
    /\ depth = 0
    /\ last_queue_depths = -1
    /\ since_check = -1
    /\ container_status = "healthy"
    /\ mdoc_stage = "none"
    /\ mdoc_age = 0
    /\ cycle_alerts = {}
    /\ stall_span = 0
    /\ stall_alerts = 0
    /\ unhealthy_for = -1
    /\ unhealthy_alerts = 0

(***************************************************************************)
(* The OpenAI key manager (OpenAIKeyManager, chat_completion)              *)
(***************************************************************************)
\* the initial state of a key's hash (_init_redis_state)
InitialRemaining == 10000

InitialBudget == 9000

\* chat_completion gives up when _retry_depth > 5
MaxRetryDepth == 5

\* the keys key_1 .. key_n, in the order of self.keys
KeyIds == 1..MaxKeys

NoKeyId == 0

FreshKey ==
    [requests_made |-> 0, rate_limit_remaining |-> InitialRemaining,
     rate_limit_reset |-> "none", last_error |-> "",
     budget_limit_requests |-> InitialBudget]

\* get_best_key, the reset of a key whose reset time has passed
ResetDue(info) ==
    IF info.rate_limit_reset = "past"
      THEN [info EXCEPT !.requests_made = 0,
                        !.rate_limit_remaining = InitialRemaining,
                        !.rate_limit_reset = "none"]
      ELSE info

\* get_best_key: remaining - requests_made of a key that is within budget
KeyScore(info) ==
    info.rate_limit_remaining - info.requests_made

RECURSIVE BestKey(_, _, _, _)
\* get_best_key: the loop over self.keys from key k on; a later key wins
\* only with a strictly greater score
BestKey(infos, k, best_key_id, best_score) ==
    IF k > MaxKeys THEN best_key_id
    ELSE IF infos[k].requests_made >= infos[k].budget_limit_requests
           THEN BestKey(infos, k + 1, best_key_id, best_score)
    ELSE IF KeyScore(infos[k]) > best_score
           THEN BestKey(infos, k + 1, k, KeyScore(infos[k]))
    ELSE BestKey(infos, k + 1, best_key_id, best_score)

\* the values of the x-ratelimit-remaining-requests header, -1 = absent
RemainingHeaders == {-1, 5}

\* int(total_limit * 0.9)
NinetyPercent(n) ==
    (n * 9) \div 10

\* a call of chat_completion begins
StartCall ==
    /\ cpc \in {"idle", "done", "failed"}
    /\ calls < MaxCalls
    /\ calls' = calls + 1
    /\ cpc' = "select"
    /\ retry_depth' = 0
    /\ ckey' = NoKeyId
    /\ request_log' = <<>>
    /\ UNCHANGED <<key_info, limited>>
    /\ UNCHANGED nonKeyVars

\* the depth test and mgr.get_best_key()
get_best_key ==
    /\ cpc = "select"
    /\ IF retry_depth > MaxRetryDepth
         THEN /\ cpc' = "failed"
              /\ UNCHANGED <<key_info, ckey>>
         ELSE LET infos == [k \in KeyIds |-> ResetDue(key_info[k])]
                  best == BestKey(infos, 1, NoKeyId, -1)
              IN /\ key_info' = infos
                 /\ ckey' = best
                 /\ cpc' = IF best = NoKeyId THEN "failed" ELSE "request"
    /\ UNCHANGED <<limited, retry_depth, request_log, calls>>
    /\ UNCHANGED nonKeyVars

\* the request succeeds: record_usage(key_id, tokens_used, resp.headers)
Respond200(remaining, reset) ==
    /\ cpc = "request"
    /\ ckey \notin limited
    /\ request_log' = Append(request_log, <<ckey, 200>>)
    /\ LET info == key_info[ckey]
           counted == [info EXCEPT !.requests_made = @ + 1]
           withRemaining ==
             IF remaining = -1 THEN counted
             ELSE [counted EXCEPT
                     !.rate_limit_remaining = remaining,
                     !.budget_limit_requests =
                        NinetyPercent(info.requests_made + remaining)]
           withReset ==
             IF reset THEN [withRemaining EXCEPT !.rate_limit_reset = "future"]
             ELSE withRemaining
       IN key_info' = [key_info EXCEPT ![ckey] = withReset]
    /\ cpc' = "done"
    /\ UNCHANGED <<limited, ckey, retry_depth, calls>>
    /\ UNCHANGED nonKeyVars

\* HTTP 429: record_error(key_id, "rate_limited") and the recursive call
\* with _retry_depth + 1
Respond429 ==
    /\ cpc = "request"
    /\ ckey \in limited
    /\ request_log' = Append(request_log, <<ckey, 429>>)
    /\ key_info' = [key_info EXCEPT ![ckey].last_error = "rate_limited"]
    /\ retry_depth' = retry_depth + 1
    /\ cpc' = "select"
    /\ UNCHANGED <<limited, ckey, calls>>
    /\ UNCHANGED nonKeyVars

\* another HTTP error: record_error(key_id, str(e)) and raise
RespondError ==
    /\ cpc = "request"
    /\ ckey \notin limited
    /\ request_log' = Append(request_log, <<ckey, 500>>)
    /\ key_info' = [key_info EXCEPT ![ckey].last_error = "http_error"]
    /\ cpc' = "failed"
    /\ UNCHANGED <<limited, ckey, retry_depth, calls>>
    /\ UNCHANGED nonKeyVars

\* the API starts or stops rate-limiting a key
SetLimited(k) ==
    /\ cpc \in {"idle", "done", "failed"}
    /\ limited' = IF k \in limited THEN limited \ {k} ELSE limited \cup {k}
    /\ UNCHANGED <<key_info, cpc, ckey, retry_depth, request_log, calls>>
    /\ UNCHANGED nonKeyVars

\* the reset time of a key passes
ResetTimePasses(k) ==
    /\ key_info[k].rate_limit_reset = "future"
    /\ key_info' = [key_info EXCEPT ![k].rate_limit_reset = "past"]
    /\ UNCHANGED <<limited, cpc, ckey, retry_depth, request_log, calls>>
    /\ UNCHANGED nonKeyVars

KeyInit ==
    /\ key_info = [k \in KeyIds |-> FreshKey]
    /\ limited = {}
    /\ cpc = "idle"
    /\ ckey = NoKeyId
    /\ retry_depth = 0
    /\ request_log = <<>>
    /\ calls = 0

(***************************************************************************)
(* The researcher's directive handler (handle_research_directive)          *)
(***************************************************************************)
\* the replica that handles the directives
DirResearcher == 1

\* the host of URL_TEMPLATES[0], the URL used per code of a range
RangeHost == "a"

\* check_rate_limit() without a domain: the global counter and the cooldown
check_rate_limit_global(total, last) ==
    /\ ~(total # NoKey /\ total.val >= MAX_URLS_PER_HOUR)
    /\ ~(now - last < COOLDOWN_SECONDS)

\* whether submit_url(url) of a new URL of `domain` passes its rate check
SubmitAllowed(domain) ==
    check_rate_limit(DirResearcher, domain)

\* submit_url(url) of a new, valid URL, run to its end by one replica: the
\* rate check, the insert, the push, the registration, the counters
SubmitWhole(domain) ==
    IF SubmitAllowed(domain)
      THEN /\ crawl_pushed' = [crawl_pushed EXCEPT ![domain][0] = @ + 1]
           /\ rate_total' = IncrKey(rate_total)
           /\ rate_domain' = [rate_domain EXCEPT ![domain] = IncrKey(@)]
           /\ last_submission' =
                [last_submission EXCEPT ![DirResearcher] = now]
      ELSE UNCHANGED <<crawl_pushed, rate_total, rate_domain,
                       last_submission>>

\* run_autonomous_cycle submits a URL outside any directive
autonomous_submit(host) ==
    /\ dpc = "idle"
    /\ get_domain(host) # ""
    /\ SubmitWhole(get_domain(host))
    /\ UNCHANGED <<now, rpc, rdomain, rateFaults>>
    /\ UNCHANGED dirVars
    /\ UNCHANGED nonRateDirVars

\* handle_research_directive: an expand_coverage directive with one target
\* range of n codes arrives
receive_directive(n) ==
    /\ dpc = "idle"
    /\ directives < MaxDirectives
    /\ directives' = directives + 1
    /\ dpc' = "range"
    /\ durls' = n
    /\ dcount' = n
    /\ dsubmitted' = 0
    /\ dremaining' = MAX_URLS_PER_HOUR - rate_total.val
    /\ ddomroom' = MAX_PER_DOMAIN_PER_HOUR
                     - rate_domain[get_domain(RangeHost)].val
    /\ dcooled' = ~(now - last_submission[DirResearcher] < COOLDOWN_SECONDS)
    /\ UNCHANGED rateVars
    /\ UNCHANGED nonRateDirVars

\* one pass of the loop over the codes of the range: submit_url(urls[0]),
\* then check_rate_limit() and break when it is not allowed
RangeStep ==
    /\ dpc = "range"
    /\ durls > 0
    /\ SubmitWhole(get_domain(RangeHost))
    /\ dsubmitted' = IF SubmitAllowed(get_domain(RangeHost))
                       THEN dsubmitted + 1 ELSE dsubmitted
    /\ IF check_rate_limit_global(rate_total', last_submission'[DirResearcher])
         THEN /\ durls' = durls - 1
              /\ dpc' = "range"
         ELSE /\ durls' = durls
              /\ dpc' = "report"
    /\ UNCHANGED <<now, rpc, rdomain, rateFaults>>
    /\ UNCHANGED <<dcount, dremaining, ddomroom, dcooled, directives>>
    /\ UNCHANGED nonRateDirVars

\* the loop has visited every code
RangeEnd ==
    /\ dpc = "range"
    /\ durls = 0
    /\ dpc' = "report"
    /\ UNCHANGED <<durls, dcount, dsubmitted, dremaining, ddomroom, dcooled,
                   directives>>
    /\ UNCHANGED rateVars
    /\ UNCHANGED nonRateDirVars

\* the research_complete report to the orchestrator
DirectiveReport ==
    /\ dpc = "report"
    /\ dpc' = "done"
    /\ UNCHANGED <<durls, dcount, dsubmitted, dremaining, ddomroom, dcooled,
                   directives>>
    /\ UNCHANGED rateVars
    /\ UNCHANGED nonRateDirVars

\* the loop of main() takes the next directive
DirectiveNext ==
    /\ dpc = "done"
    /\ dpc' = "idle"
    /\ UNCHANGED <<durls, dcount, dsubmitted, dremaining, ddomroom, dcooled,
                   directives>>
    /\ UNCHANGED rateVars
    /\ UNCHANGED nonRateDirVars

DirInit ==
    /\ dpc = "idle"
    /\ durls = 0
    /\ dcount = 0
    /\ dsubmitted = 0
    /\ dremaining = 0
    /\ ddomroom = 0
    /\ dcooled = TRUE
    /\ directives = 0

(***************************************************************************)
(* The orchestrator: resource_monitor, planner, task_manager, worker       *)
(***************************************************************************)
\* MAX_GPU_QUEUE_ITEMS (default 20) and MAX_CONCURRENT_CRAWLS (default 5),
\* scaled to the queue depths of the model
MAX_GPU_QUEUE_ITEMS == 2

MAX_CONCURRENT_CRAWLS == 2

\* the total_queued above which decide_next_actions only waits (50), scaled
HeavyLoad == 2

\* the commands one call of process_commands() handles (10), scaled
COMMANDS_PER_CYCLE == 1

\* ORCHESTRATOR_AUTO_RESEARCH, "true" by default
AUTO_RESEARCH == TRUE

GPU_QUEUES == {"jobs:evaluate", "jobs:extract", "jobs:embed"}

CRAWL_QUEUES == {"jobs:crawl", "jobs:chunk"}

ALL_QUEUES ==
    {"jobs:crawl", "jobs:chunk", "jobs:embed", "jobs:evaluate",
     "jobs:extract", "jobs:resolve"}

\* sum(depths.get(q, 0) for q in qs)
RECURSIVE SumDepths(_, _)
SumDepths(depths, qs) ==
    IF qs = {}
      THEN 0
      ELSE LET q == CHOOSE x \in qs : TRUE
           IN depths[q] + SumDepths(depths, qs \ {q})

\* get_system_state(): the fields of get_resource_availability() it passes on
get_resource_availability(depths) ==
    [gpu_available |-> SumDepths(depths, GPU_QUEUES) < MAX_GPU_QUEUE_ITEMS,
     crawl_available |-> SumDepths(depths, CRAWL_QUEUES) < MAX_CONCURRENT_CRAWLS,
     gpu_load |-> SumDepths(depths, GPU_QUEUES),
     total_queued |-> SumDepths(depths, ALL_QUEUES),
     pipeline_idle |-> SumDepths(depths, ALL_QUEUES) = 0]

\* get_latest_audit_report() found no row
NoReport == [present |-> FALSE, recommendations |-> <<>>]

\* the recommendations of an audit report: type, priority, and whether
\* target_codes / target_ranges is non-empty
Recs ==
    {[type |-> "fix_pipeline", priority |-> 1, has_targets |-> FALSE],
     [type |-> "improve_confidence", priority |-> 5, has_targets |-> TRUE],
     [type |-> "fill_gaps", priority |-> 4, has_targets |-> FALSE],
     [type |-> "expand_coverage", priority |-> 6, has_targets |-> TRUE]}

RecLists == UNION {[1..n -> Recs] : n \in 0..MaxRecs}

Reports ==
    {NoReport} \cup {[present |-> TRUE, recommendations |-> l] : l \in RecLists}

OrchAction(type, subtype, priority) ==
    [type |-> type, subtype |-> subtype, priority |-> priority]

\* the body of the loop over the recommendations: the actions one
\* recommendation adds
RecAction(rec, system_state) ==
    IF rec.type \in {"fix_pipeline", "reprocess_errors"}
      THEN <<OrchAction("alert", "", rec.priority)>>
    ELSE IF /\ rec.type = "improve_confidence"
            /\ system_state.crawl_available
            /\ rec.has_targets
      THEN <<OrchAction("research", "improve_confidence", 5)>>
    ELSE IF /\ rec.type = "fill_gaps"
            /\ system_state.crawl_available
            /\ rec.has_targets
      THEN <<OrchAction("research", "fill_gaps", 4)>>
    ELSE IF /\ rec.type = "expand_coverage"
            /\ system_state.crawl_available
            /\ rec.has_targets
      THEN <<OrchAction("research", "expand_coverage", 6)>>
    ELSE <<>>

RECURSIVE RecActions(_, _, _)
RecActions(recs, i, system_state) ==
    IF i > Len(recs)
      THEN <<>>
      ELSE RecAction(recs[i], system_state)
             \o RecActions(recs, i + 1, system_state)

\* actions.sort(key=priority): a stable sort, by insertion
RECURSIVE InsertByPriority(_, _)
InsertByPriority(sorted, a) ==
    IF sorted = <<>>
      THEN <<a>>
    ELSE IF Head(sorted).priority <= a.priority
      THEN <<Head(sorted)>> \o InsertByPriority(Tail(sorted), a)
    ELSE <<a>> \o sorted

RECURSIVE SortByPriority(_, _, _)
SortByPriority(actions, i, sorted) ==
    IF i > Len(actions)
      THEN sorted
      ELSE SortByPriority(actions, i + 1, InsertByPriority(sorted, actions[i]))

\* decide_next_actions without its second rule (GPU busy and pipeline busy)
decide_next_actions_no_gpu_rule(system_state, report) ==
    IF system_state.total_queued > HeavyLoad
      THEN <<OrchAction("wait", "", 1)>>
      ELSE LET audit == IF ~report.present
                          THEN <<OrchAction("trigger_audit", "", 3)>>
                          ELSE <<>>
               recs == IF report.present
                         THEN RecActions(report.recommendations, 1,
                                         system_state)
                         ELSE <<>>
               acts == audit \o recs
           IN IF acts = <<>> /\ system_state.pipeline_idle
                THEN <<OrchAction("idle", "", 7)>>
                ELSE SortByPriority(acts, 1, <<>>)

decide_next_actions(system_state, report) ==
    IF system_state.total_queued > HeavyLoad
      THEN <<OrchAction("wait", "", 1)>>
    ELSE IF ~system_state.pipeline_idle /\ ~system_state.gpu_available
      THEN <<OrchAction("wait", "", 2)>>
    ELSE LET audit == IF ~report.present
                        THEN <<OrchAction("trigger_audit", "", 3)>>
                        ELSE <<>>
             recs == IF report.present
                       THEN RecActions(report.recommendations, 1, system_state)
                       ELSE <<>>
             acts == audit \o recs
         IN IF acts = <<>> /\ system_state.pipeline_idle
              THEN <<OrchAction("idle", "", 7)>>
              ELSE SortByPriority(acts, 1, <<>>)

\* decide(): the research actions are filtered out unless AUTO_RESEARCH
decide(system_state, report) ==
    LET actions == decide_next_actions(system_state, report)
    IN IF AUTO_RESEARCH
         THEN actions
         ELSE SelectSeq(actions, LAMBDA a : a.type # "research")

\* the row INSERT INTO orchestrator_tasks makes
NewTask(task_type) ==
    [task_type |-> task_type, status |-> "pending", retry_count |-> 0]

TaskTypes == {"research", "audit"}

TaskIds == 1..MaxTasks

\* the UPDATE of start_task
StartTask(tk, id) ==
    IF id \in 1..Len(tk) THEN [tk EXCEPT ![id].status = "in_progress"] ELSE tk

\* the UPDATE of complete_task
CompleteTask(tk, id) ==
    IF id \in 1..Len(tk) THEN [tk EXCEPT ![id].status = "completed"] ELSE tk

\* a check that looks at pending tasks only
has_pending_only(tk, task_type) ==
    \E i \in 1..Len(tk) :
        /\ tk[i].task_type = task_type
        /\ tk[i].status = "pending"

\* task_manager.has_pending_task_of_type
has_pending_task_of_type(tk, task_type) ==
    \E i \in 1..Len(tk) :
        /\ tk[i].task_type = task_type
        /\ tk[i].status \in {"pending", "in_progress"}

\* one pass of the loop of act() over the decided actions; st holds the
\* tasks, the two directive queues and the `executed` list
ActOne(st, action) ==
    CASE action.type \in {"wait", "idle", "alert"} ->
           [st EXCEPT !.executed = Append(@, action.type)]
      [] action.type = "trigger_audit" ->
           IF has_pending_task_of_type(st.tasks, "audit")
             THEN st
             ELSE [st EXCEPT
                     !.tasks = StartTask(Append(@, NewTask("audit")),
                                         Len(@) + 1),
                     !.audit_queue =
                        Append(@, [type |-> "full_audit",
                                   task_id |-> Len(st.tasks) + 1]),
                     !.executed = Append(@, "trigger_audit")]
      [] action.type = "research" ->
           IF has_pending_task_of_type(st.tasks, "research")
             THEN st
             ELSE [st EXCEPT
                     !.tasks = StartTask(Append(@, NewTask("research")),
                                         Len(@) + 1),
                     !.research_queue =
                        Append(@, [type |-> action.subtype,
                                   task_id |-> Len(st.tasks) + 1]),
                     !.executed = Append(@, "research")]
      [] OTHER -> st

RECURSIVE act(_, _, _)
act(actions, i, st) ==
    IF i > Len(actions)
      THEN st
      ELSE act(actions, i + 1, ActOne(st, actions[i]))

\* the commands other agents and the API send; task_id 0: none
Commands ==
    {[type |-> "audit_findings", task_id |-> 0, action |-> ""],
     [type |-> "manual_command", task_id |-> 0, action |-> "trigger_audit"],
     [type |-> "manual_command", task_id |-> 0, action |-> "trigger_research"]}
      \cup {[type |-> "research_complete", task_id |-> id, action |-> ""] :
              id \in TaskIds}

\* one pass of the loop of process_commands()
CommandOne(st, cmd) ==
    CASE cmd.type = "research_complete" /\ cmd.task_id # 0 ->
           [st EXCEPT !.tasks = CompleteTask(@, cmd.task_id)]
      [] cmd.type = "manual_command" /\ cmd.action = "trigger_audit" ->
           [st EXCEPT !.audit_queue =
                         Append(@, [type |-> "full_audit", task_id |-> 0])]
      [] cmd.type = "manual_command" /\ cmd.action = "trigger_research" ->
           [st EXCEPT !.research_queue =
                         Append(@, [type |-> "manual", task_id |-> 0])]
      [] OTHER -> st

\* process_commands(): `while processed < 10`, pop a command and handle it.
\* cmds holds the commands the pops of this call return; the call has handled
\* the first nprocessed of them
RECURSIVE process_commands(_, _, _)
process_commands(cmds, nprocessed, st) ==
    IF nprocessed >= COMMANDS_PER_CYCLE \/ nprocessed >= Len(cmds)
      THEN st
      ELSE process_commands(cmds, nprocessed + 1,
                            CommandOne(st, cmds[nprocessed + 1]))

\* run_cycle(): process_commands, then observe, orient, decide, act.
\* pop_job(COMMAND_QUEUE, timeout=0) is BRPOP with timeout 0, which waits for
\* a command: process_commands returns only after COMMANDS_PER_CYCLE pops
\* returned one
run_cycle ==
    /\ Len(tasks) < MaxTasks
    /\ Len(command_queue) >= COMMANDS_PER_CYCLE
    /\ LET st0 == [tasks |-> tasks, research_queue |-> research_queue,
                   audit_queue |-> audit_queue, executed |-> <<>>]
           st1 == process_commands(command_queue, 0, st0)
           system_state == get_resource_availability(qdepth)
           actions == decide(system_state, audit_report)
           st2 == act(actions, 1, st1)
       IN /\ command_queue' = SubSeq(command_queue, COMMANDS_PER_CYCLE + 1,
                                     Len(command_queue))
          /\ observed' = system_state
          /\ decided' = actions
          /\ tasks' = st2.tasks
          /\ research_queue' = st2.research_queue
          /\ audit_queue' = st2.audit_queue
          /\ executed' = st2.executed
          /\ cycle_end' = "acted"
    /\ UNCHANGED <<qdepth, audit_report, commands_sent>>
    /\ UNCHANGED nonOrchVars

\* run_cycle() with fewer commands queued than process_commands pops: the
\* pop on the empty queue waits until the client's socket_timeout raises
\* redis TimeoutError, which pop_job does not catch (it catches
\* ConnectionError); the exception leaves run_cycle before observe, and
\* main() logs it and sleeps
run_cycle_TimeoutError ==
    /\ Len(command_queue) < COMMANDS_PER_CYCLE
    /\ LET st0 == [tasks |-> tasks, research_queue |-> research_queue,
                   audit_queue |-> audit_queue, executed |-> <<>>]
           st1 == process_commands(command_queue, 0, st0)
       IN /\ command_queue' = <<>>
          /\ tasks' = st1.tasks
          /\ research_queue' = st1.research_queue
          /\ audit_queue' = st1.audit_queue
          /\ cycle_end' = "TimeoutError"
    /\ UNCHANGED <<qdepth, audit_report, observed, decided, executed,
                   commands_sent>>
    /\ UNCHANGED nonOrchVars

\* the queues whose depth changes: the crawl queue, two of the GPU queues
\* and one more; the others stay empty
ChangingQueues ==
    {"jobs:crawl", "jobs:chunk", "jobs:embed", "jobs:evaluate"}

\* the pipeline's workers push to and pop from a queue
OrchQueueChange(q, d) ==
    /\ qdepth[q] # d
    /\ qdepth' = [qdepth EXCEPT ![q] = d]
    /\ UNCHANGED <<audit_report, tasks, command_queue, research_queue,
                   audit_queue, observed, decided, executed, commands_sent,
                   cycle_end>>
    /\ UNCHANGED nonOrchVars

\* the auditor stores a report
store_audit_report(report) ==
    /\ report.present
    /\ audit_report # report
    /\ audit_report' = report
    /\ UNCHANGED <<qdepth, tasks, command_queue, research_queue, audit_queue,
                   observed, decided, executed, commands_sent,
                   cycle_end>>
    /\ UNCHANGED nonOrchVars

\* an agent or the API pushes a command
send_command(cmd) ==
    /\ commands_sent < MaxCommands
    /\ commands_sent' = commands_sent + 1
    /\ command_queue' = Append(command_queue, cmd)
    /\ UNCHANGED <<qdepth, audit_report, tasks, research_queue, audit_queue,
                   observed, decided, executed, cycle_end>>
    /\ UNCHANGED nonOrchVars

\* the calls of task_manager, made in any order on any task
create_task(task_type) ==
    /\ Len(tasks) < MaxTasks
    /\ tasks' = Append(tasks, NewTask(task_type))
    /\ UNCHANGED <<qdepth, audit_report, command_queue, research_queue,
                   audit_queue, observed, decided, executed, commands_sent,
                   cycle_end>>
    /\ UNCHANGED nonOrchVars

start_task(id) ==
    /\ id \in 1..Len(tasks)
    /\ tasks' = StartTask(tasks, id)
    /\ UNCHANGED <<qdepth, audit_report, command_queue, research_queue,
                   audit_queue, observed, decided, executed, commands_sent,
                   cycle_end>>
    /\ UNCHANGED nonOrchVars

complete_task(id) ==
    /\ id \in 1..Len(tasks)
    /\ tasks' = CompleteTask(tasks, id)
    /\ UNCHANGED <<qdepth, audit_report, command_queue, research_queue,
                   audit_queue, observed, decided, executed, commands_sent,
                   cycle_end>>
    /\ UNCHANGED nonOrchVars

\* status = CASE WHEN retry_count < 3 THEN 'pending' ELSE 'failed' END,
\* retry_count = retry_count + 1
fail_task(id) ==
    /\ id \in 1..Len(tasks)
    /\ tasks[id].retry_count < MaxRetryCount
    /\ tasks' = [tasks EXCEPT
                   ![id].status = IF tasks[id].retry_count < 3
                                    THEN "pending" ELSE "failed",
                   ![id].retry_count = @ + 1]
    /\ UNCHANGED <<qdepth, audit_report, command_queue, research_queue,
                   audit_queue, observed, decided, executed, commands_sent,
                   cycle_end>>
    /\ UNCHANGED nonOrchVars

\* UPDATE ... SET status = 'cancelled' WHERE id = %s AND status = 'pending'
cancel_task(id) ==
    /\ id \in 1..Len(tasks)
    /\ tasks[id].status = "pending"
    /\ tasks' = [tasks EXCEPT ![id].status = "cancelled"]
    /\ UNCHANGED <<qdepth, audit_report, command_queue, research_queue,
                   audit_queue, observed, decided, executed, commands_sent,
                   cycle_end>>
    /\ UNCHANGED nonOrchVars

\* the auditor pops a directive: run_full_audit stores a report and sends
\* audit_findings when a recommendation has priority 1 or 2; the task_id of
\* the directive is not read
handle_directive(report) ==
    /\ audit_queue # <<>>
    /\ report.present
    /\ audit_queue' = Tail(audit_queue)
    /\ audit_report' = report
    /\ command_queue' =
         IF \E i \in 1..Len(report.recommendations) :
               report.recommendations[i].priority <= 2
           THEN Append(command_queue,
                       [type |-> "audit_findings", task_id |-> 0,
                        action |-> ""])
           ELSE command_queue
    /\ UNCHANGED <<qdepth, tasks, research_queue, observed, decided,
                   executed, commands_sent, cycle_end>>
    /\ UNCHANGED nonOrchVars

\* the researcher pops a directive, submits URLs and reports back with
\* research_complete and the directive's task_id
handle_research_directive ==
    /\ research_queue # <<>>
    /\ research_queue' = Tail(research_queue)
    /\ command_queue' =
         Append(command_queue,
                [type |-> "research_complete",
                 task_id |-> Head(research_queue).task_id, action |-> ""])
    /\ UNCHANGED <<qdepth, audit_report, tasks, audit_queue, observed,
                   decided, executed, commands_sent, cycle_end>>
    /\ UNCHANGED nonOrchVars

OrchInit ==
    /\ qdepth = [q \in ALL_QUEUES |-> 0]
    /\ audit_report = NoReport
    /\ tasks = <<>>
    /\ command_queue = <<>>
    /\ research_queue = <<>>
    /\ audit_queue = <<>>
    /\ observed = get_resource_availability([q \in ALL_QUEUES |-> 0])
    /\ decided = <<>>
    /\ executed = <<>>
    /\ commands_sent = 0
    /\ cycle_end = "none"

(***************************************************************************)
(* Shutdown of a stage worker (shared/graceful.py and each main())         *)
(***************************************************************************)
StageWorkers == {"crawl", "chunk", "embed", "evaluate", "extract", "resolve"}

\* the workers whose main() loops on shutdown.is_running(); the crawler and
\* the extraction worker loop on `while True`
UsesGracefulShutdown(w) == w \in {"chunk", "embed", "evaluate", "resolve"}

Signals == {"SIGTERM", "SIGINT"}

\* the worker process starts: GracefulShutdown() sets _running
StartWorker(w) ==
    /\ sworker = "none"
    /\ sworker' = w
    /\ spc' = "check"
    /\ UNCHANGED <<srunning, sjob, squeue, senqueued, ssignalled, sinflight,
                   sreleased>>
    /\ UNCHANGED nonShutVars

\* the loop condition: shutdown.is_running(), or True
LoopCheck ==
    /\ spc = "check"
    /\ spc' = IF UsesGracefulShutdown(sworker) /\ ~srunning
                THEN "cleanup" ELSE "poll"
    /\ UNCHANGED <<sworker, srunning, sjob, squeue, senqueued, ssignalled,
                   sinflight, sreleased>>
    /\ UNCHANGED nonShutVars

\* job = pop_job(...): a payload, or None after the timeout
ShutPoll ==
    /\ spc = "poll"
    /\ IF squeue > 0
         THEN /\ squeue' = squeue - 1
              /\ sjob' = TRUE
              /\ spc' = "process"
         ELSE /\ spc' = "check"
              /\ UNCHANGED <<squeue, sjob>>
    /\ UNCHANGED <<sworker, srunning, senqueued, ssignalled, sinflight,
                   sreleased>>
    /\ UNCHANGED nonShutVars

\* process_document(job) runs to its end (or to the error boundary's end)
ShutProcess ==
    /\ spc = "process"
    /\ sjob' = FALSE
    /\ spc' = "check"
    /\ UNCHANGED <<sworker, srunning, squeue, senqueued, ssignalled,
                   sinflight, sreleased>>
    /\ UNCHANGED nonShutVars

\* shutdown.cleanup(): _close_db_pool(), _close_redis(); main() returns
cleanup ==
    /\ spc = "cleanup"
    /\ sreleased' = TRUE
    /\ spc' = "exited"
    /\ UNCHANGED <<sworker, srunning, sjob, squeue, senqueued, ssignalled,
                   sinflight>>
    /\ UNCHANGED nonShutVars

\* SIGTERM or SIGINT is delivered. With the handler registered,
\* _handle_signal sets _running = False. Without it SIGTERM ends the process
\* at once, and SIGINT raises KeyboardInterrupt, which `except Exception`
\* does not catch: the process exits and the atexit handlers close the pool
\* and the Redis client
_handle_signal(sig) ==
    /\ spc \in {"check", "poll", "process", "cleanup"}
    /\ ~ssignalled
    /\ ssignalled' = TRUE
    /\ sinflight' = sjob
    /\ IF UsesGracefulShutdown(sworker)
         THEN /\ srunning' = FALSE
              /\ UNCHANGED <<spc, sreleased>>
         ELSE /\ spc' = IF sig = "SIGTERM" THEN "killed" ELSE "exited"
              /\ sreleased' = (sig = "SIGINT")
              /\ UNCHANGED srunning
    /\ UNCHANGED <<sworker, sjob, squeue, senqueued>>
    /\ UNCHANGED nonShutVars

\* the previous stage pushes a job to the worker's queue
ShutEnqueue ==
    /\ senqueued < MaxShutJobs
    /\ senqueued' = senqueued + 1
    /\ squeue' = squeue + 1
    /\ UNCHANGED <<sworker, srunning, spc, sjob, ssignalled, sinflight,
                   sreleased>>
    /\ UNCHANGED nonShutVars

ShutInit ==
    /\ sworker = "none"
    /\ srunning = TRUE
    /\ spc = "none"
    /\ sjob = FALSE
    /\ squeue = 0
    /\ senqueued = 0
    /\ ssignalled = FALSE
    /\ sinflight = FALSE
    /\ sreleased = FALSE

\* the candidate dicts handed to merge_text_entities
MergeCandidates ==
    [text : RawDescs, score : {60, 80}, evidence_count : 0..MaxEvidence,
     avg_trust : {16, 48}]

\* the candidate lists of up to MaxCands candidates
CandLists ==
    UNION {[1..n -> MergeCandidates] : n \in 0..MaxCands}

RECURSIVE KeysInOrder(_, _)
\* the keys of the dict built by group_duplicates, in insertion order; a
\* candidate whose normalized text is empty is skipped
KeysInOrder(cands, seen) ==
    IF cands = <<>>
      THEN <<>>
      ELSE LET key == normalize_text(Head(cands).text)
           IN IF key = <<>> \/ key \in seen
                THEN KeysInOrder(Tail(cands), seen)
                ELSE <<key>> \o KeysInOrder(Tail(cands), seen \cup {key})

\* group_duplicates(candidates, text_field)[key]
group_duplicates(cands, key) ==
    SelectSeq(cands, LAMBDA c : normalize_text(c.text) = key)

\* group.sort(key=lambda c: -c["score"]): a stable sort, by insertion
RECURSIVE InsertByScore(_, _)
InsertByScore(sorted, c) ==
    IF sorted = <<>>
      THEN <<c>>
    ELSE IF Head(sorted).score >= c.score
      THEN <<Head(sorted)>> \o InsertByScore(Tail(sorted), c)
    ELSE <<c>> \o sorted

RECURSIVE SortByScore(_, _, _)
SortByScore(group, i, sorted) ==
    IF i > Len(group)
      THEN sorted
      ELSE SortByScore(group, i + 1, InsertByScore(sorted, group[i]))

RECURSIVE SumEvidence(_)
\* sum(c.get("evidence_count", 0) for c in group)
SumEvidence(group) ==
    IF group = <<>> THEN 0
    ELSE Head(group).evidence_count + SumEvidence(Tail(group))

RECURSIVE SumAvgTrust(_)
SumAvgTrust(group) ==
    IF group = <<>> THEN 0
    ELSE Head(group).avg_trust + SumAvgTrust(Tail(group))

\* the winner of a group of duplicates that keeps its own evidence_count
MergeGroupKeepWinner(group) ==
    IF Len(group) = 1
      THEN group[1]
      ELSE LET sorted == SortByScore(group, 1, <<>>)
               all_trust == SelectSeq(group, LAMBDA c : c.evidence_count > 0)
           IN [sorted[1] EXCEPT
                 !.avg_trust = IF all_trust # <<>>
                                 THEN SumAvgTrust(all_trust) \div Len(all_trust)
                                 ELSE @]

\* the body of the loop of merge_text_entities for one group: a group of one
\* is kept as it is, otherwise the best scored candidate wins and gets the
\* summed evidence and the averaged trust
MergeGroup(group) ==
    IF Len(group) = 1
      THEN group[1]
      ELSE LET sorted == SortByScore(group, 1, <<>>)
               all_trust == SelectSeq(group, LAMBDA c : c.evidence_count > 0)
           IN [sorted[1] EXCEPT
                 !.evidence_count = SumEvidence(group),
                 !.avg_trust = IF all_trust # <<>>
                                 THEN SumAvgTrust(all_trust) \div Len(all_trust)
                                 ELSE @]

\* the losers of one group
RejectedOf(group) ==
    IF Len(group) = 1 THEN <<>> ELSE Tail(SortByScore(group, 1, <<>>))

RECURSIVE RejectedAll(_, _)
RejectedAll(cands, keys) ==
    IF keys = <<>> THEN <<>>
    ELSE RejectedOf(group_duplicates(cands, Head(keys)))
           \o RejectedAll(cands, Tail(keys))

\* merger.merge_text_entities
merge_text_entities(cands) ==
    LET keys == KeysInOrder(cands, {})
    IN [merged |-> [i \in 1..Len(keys) |->
                      MergeGroup(group_duplicates(cands, keys[i]))],
        rejected |-> RejectedAll(cands, keys)]

\* the call of merge_text_entities of one run of _upsert_causes
MergeCall(cands) ==
    /\ merge_in = <<>>
    /\ merge_in' = cands
    /\ merge_out' = merge_text_entities(cands).merged
    /\ merge_rejected' = merge_text_entities(cands).rejected
    /\ UNCHANGED nonMergeVars

MergeInit ==
    /\ merge_in = <<>>
    /\ merge_out = <<>>
    /\ merge_rejected = <<>>

\* the scale of S: 6400 units per point (64 units of trust times 100)
\* clamp(value, lo, hi)
clamp(value, lo, hi) ==
    IF value < lo THEN lo ELSE IF value > hi THEN hi ELSE value

\* scorer.evidence_quality_score, scaled: 50 * (0.65 trust + 0.35 relevance)
evidence_quality_score(avg_trust, avg_relevance) ==
    3250 * clamp(avg_trust, 0, Unit) + 1750 * clamp(avg_relevance, 0, Unit)

\* scorer.vehicle_specificity_score in points; "" is None for an id and 0 is
\* None for a year (both are falsy in the source's tests)
vehicle_specificity_score(e, ctx) ==
    IF ctx.make_id = "" THEN 6
    ELSE IF e.make_id = "" THEN 6
    ELSE IF e.make_id # ctx.make_id THEN -20
    ELSE IF ctx.model_id = "" \/ e.model_id = "" THEN 12
    ELSE IF e.model_id # ctx.model_id THEN -20
    ELSE IF ctx.year # 0 /\ e.year_start # 0 /\ e.year_end # 0
      THEN IF e.year_start <= ctx.year /\ ctx.year <= e.year_end
             THEN 20 ELSE -20
    ELSE IF ctx.year # 0 /\ e.year_start # 0 /\ e.year_end = 0
      THEN IF ctx.year >= e.year_start THEN 20 ELSE -20
    ELSE 20

\* scorer.practical_impact_score, scaled; probability_weight in hundredths,
\* confirmed_repair_count 0 or 50 (ln(51)/ln(51) = 1)
practical_impact_score(e) ==
    CASE e.entity_type \in {"fix", "part"} ->
           IF e.confirmed_repair_count <= 0 THEN 0 ELSE 10 * 6400
      [] e.entity_type = "cause" -> 640 * clamp(e.probability_weight, 0, 100)
      [] e.entity_type = "symptom" -> 6400 * clamp(e.frequency_score, 0, 10)
      [] e.entity_type = "thread" -> IF e.solution_marked THEN 6 * 6400 ELSE 0
      [] OTHER -> 0

\* compute_score without its final clamp
compute_score_unclamped(e, ctx) ==
    evidence_quality_score(e.avg_trust, e.avg_relevance)
      + consensus_score(e.evidence_count)
      + 6400 * vehicle_specificity_score(e, ctx)
      + practical_impact_score(e)

\* scorer.compute_score, scaled by 6400
compute_score(e, ctx) ==
    clamp(evidence_quality_score(e.avg_trust, e.avg_relevance)
            + consensus_score(e.evidence_count)
            + 6400 * vehicle_specificity_score(e, ctx)
            + practical_impact_score(e),
          0, 100 * 6400)

\* the entity inputs of compute_score; an argument that the entity type does
\* not use keeps its default
ScoreEntities ==
    {e \in [entity_type : {"cause", "fix", "symptom", "thread", "step"},
            avg_trust : {0, 32, 96}, avg_relevance : {0, Unit},
            evidence_count : 0..MaxEvidence,
            make_id : {"", "toyota", "ford"}, model_id : {"", "m1"},
            year_start : {0, 2020}, year_end : {0, 2024},
            confirmed_repair_count : {0, 50},
            probability_weight : {0, 50, 100},
            frequency_score : {0, 7},
            solution_marked : BOOLEAN] :
       /\ e.entity_type # "fix" => e.confirmed_repair_count = 0
       /\ e.entity_type # "cause" => e.probability_weight = 0
       /\ e.entity_type # "symptom" => e.frequency_score = 0
       /\ e.entity_type # "thread" => ~e.solution_marked}

\* the vehicle contexts of compute_score
ScoreContexts ==
    [make_id : {"", "toyota", "ford"}, model_id : {"", "m1", "m2"},
     year : {0, 2022, 2025}]

\* compute_score called without ctx_make_id, ctx_model_id and ctx_year
NoContext ==
    [make_id |-> "", model_id |-> "", year |-> 0]

\* compute_score(e, ctx) and compute_score(e) of one ranking
ScoreCall(e, ctx) ==
    /\ ~scored
    /\ scored' = TRUE
    /\ score_entity' = e
    /\ score_ctx' = ctx
    /\ score_with_ctx' = compute_score(e, ctx)
    /\ score_no_ctx' = compute_score(e, NoContext)
    /\ UNCHANGED nonScoreVars

ScoreInit ==
    /\ scored = FALSE
    /\ score_entity = CHOOSE e \in ScoreEntities : TRUE
    /\ score_ctx = NoContext
    /\ score_with_ctx = 0
    /\ score_no_ctx = 0

\* the raw texts of a document, up to MaxTextLen characters
ChunkTexts ==
    UNION {[1..n -> {"x", "y"}] : n \in 0..MaxTextLen}

\* the arguments of chunk_text with size > overlap >= 0
ChunkInputs ==
    {a \in [text : ChunkTexts, size : 1..MaxSize, overlap : 0..(MaxSize - 1)] :
       a.size > a.overlap}

\* text[start:end]
Slice(text, start, end) ==
    SubSeq(text, start + 1, end)

\* the while loop of chunk_text without its break; a loop that has not ended
\* after `fuel` iterations is reported as not returned
RECURSIVE chunk_loop_no_break(_, _, _, _, _, _)
chunk_loop_no_break(text, size, overlap, start, chunks, fuel) ==
    IF ~(start < Len(text))
      THEN [chunks |-> chunks, returned |-> TRUE]
    ELSE IF fuel = 0
      THEN [chunks |-> chunks, returned |-> FALSE]
    ELSE LET end == Min(start + size, Len(text))
             next == Append(chunks, [content |-> Slice(text, start, end),
                                     char_start |-> start, char_end |-> end])
         IN chunk_loop_no_break(text, size, overlap, start + (size - overlap),
                                next, fuel - 1)

\* the while loop of chunk_text; a loop that has not ended after `fuel`
\* iterations is reported as not returned
RECURSIVE chunk_loop(_, _, _, _, _, _)
chunk_loop(text, size, overlap, start, chunks, fuel) ==
    IF ~(start < Len(text))
      THEN [chunks |-> chunks, returned |-> TRUE]
    ELSE IF fuel = 0
      THEN [chunks |-> chunks, returned |-> FALSE]
    ELSE LET end == Min(start + size, Len(text))
             next == Append(chunks, [content |-> Slice(text, start, end),
                                     char_start |-> start, char_end |-> end])
         IN IF end >= Len(text)
              THEN [chunks |-> next, returned |-> TRUE]
              ELSE chunk_loop(text, size, overlap, start + (size - overlap),
                              next, fuel - 1)

\* chunking.chunk_text
chunk_text(text, size, overlap) ==
    chunk_loop(text, size, overlap, 0, <<>>, Len(text) + 1)

\* the rows process_document inserts: chunk_index is the position in the list
ChunkRows(chunks) ==
    [i \in 1..Len(chunks) |->
        [chunk_index |-> i - 1, content |-> chunks[i].content,
         char_start |-> chunks[i].char_start, char_end |-> chunks[i].char_end]]

\* chunk_text(content) and the insertion of its chunks by process_document
ChunkCall(a) ==
    /\ ~chunked
    /\ chunked' = TRUE
    /\ chunk_input' = a
    /\ chunk_rows' = ChunkRows(chunk_text(a.text, a.size, a.overlap).chunks)
    /\ chunk_returned' = chunk_text(a.text, a.size, a.overlap).returned
    /\ UNCHANGED nonChunkVars

ChunkInit ==
    /\ chunked = FALSE
    /\ chunk_input = [text |-> <<>>, size |-> 1, overlap |-> 0]
    /\ chunk_rows = <<>>
    /\ chunk_returned = FALSE

\* coverage_analyzer.DTC_PREFIXES, in its iteration order
DTC_PREFIXES ==
    <<[prefix |-> "P0", end |-> 999], [prefix |-> "P1", end |-> 999],
      [prefix |-> "P2", end |-> 999], [prefix |-> "P3", end |-> 499],
      [prefix |-> "B0", end |-> 999], [prefix |-> "B1", end |-> 999],
      [prefix |-> "C0", end |-> 999], [prefix |-> "C1", end |-> 999],
      [prefix |-> "U0", end |-> 999], [prefix |-> "U1", end |-> 999]>>

PrefixNames ==
    {DTC_PREFIXES[i].prefix : i \in 1..Len(DTC_PREFIXES)}

\* the position of a prefix in the string order of the range labels: the
\* label starts with the two characters of the prefix
PrefixRank(prefix) ==
    CASE prefix = "B0" -> 1 [] prefix = "B1" -> 2 [] prefix = "C0" -> 3
      [] prefix = "C1" -> 4 [] prefix = "P0" -> 5 [] prefix = "P1" -> 6
      [] prefix = "P2" -> 7 [] prefix = "P3" -> 8 [] prefix = "U0" -> 9
      [] OTHER -> 10

\* the sets of code numbers a prefix may hold: none, 4 codes, 11 codes in one
\* window, 11 codes over three windows, 10 codes, 11 codes one of them 500
NumberSets ==
    {{}, 0..3, 0..10, (0..4) \cup (100..103) \cup {200, 201},
     (0..4) \cup (100..104), (0..9) \cup {500}}

\* the parsed codes: only the first MaxCodedPrefixes prefixes hold codes
CodeSets ==
    LET coded == {DTC_PREFIXES[i].prefix : i \in 1..MaxCodedPrefixes}
    IN {[p \in PrefixNames |-> IF p \in coded THEN c[p] ELSE {}] :
          c \in [coded -> NumberSets]}

\* sum(1 for n in numbers if hundred_start <= n <= hundred_end)
CountInRange(numbers, hundred_start, hundred_end) ==
    Cardinality({n \in numbers : hundred_start <= n /\ n <= hundred_end})

\* the flagging condition without the rule on the size of the prefix
WindowIsGapAnyPrefix(count_in_range, numbers) ==
    count_in_range < 5

\* if count_in_range < 5 and len(numbers) > 10
WindowIsGap(count_in_range, numbers) ==
    count_in_range < 5 /\ Cardinality(numbers) > 10

\* the gaps of one prefix, for hundred_start in range(hundred_start,
\* max_range + 1, 100)
RECURSIVE PrefixGaps(_, _, _)
PrefixGaps(info, numbers, hundred_start) ==
    LET max_range == Min(info.end, 999)
        hundred_end == Min(hundred_start + 99, max_range)
        count_in_range == CountInRange(numbers, hundred_start, hundred_end)
    IN IF hundred_start > max_range
         THEN <<>>
         ELSE (IF WindowIsGap(count_in_range, numbers)
                 THEN <<[prefix |-> info.prefix,
                         hundred_start |-> hundred_start,
                         hundred_end |-> hundred_end,
                         existing_count |-> count_in_range,
                         priority |-> IF count_in_range = 0
                                        THEN "high" ELSE "medium"]>>
                 ELSE <<>>)
              \o PrefixGaps(info, numbers, hundred_start + 100)

\* the loop over DTC_PREFIXES; a prefix without codes is skipped
RECURSIVE AllGaps(_, _)
AllGaps(codes, i) ==
    IF i > Len(DTC_PREFIXES)
      THEN <<>>
      ELSE (IF codes[DTC_PREFIXES[i].prefix] = {}
              THEN <<>>
              ELSE PrefixGaps(DTC_PREFIXES[i], codes[DTC_PREFIXES[i].prefix], 0))
           \o AllGaps(codes, i + 1)

\* the sort key (0 if high else 1, range) compared; the range label orders by
\* prefix and then by hundred_start
GapKeyLeq(g, h) ==
    LET pg == IF g.priority = "high" THEN 0 ELSE 1
        ph == IF h.priority = "high" THEN 0 ELSE 1
    IN \/ pg < ph
       \/ /\ pg = ph
          /\ \/ PrefixRank(g.prefix) < PrefixRank(h.prefix)
             \/ /\ g.prefix = h.prefix
                /\ g.hundred_start <= h.hundred_start

\* gaps.sort(key=...): a stable sort, by insertion
RECURSIVE InsertGap(_, _)
InsertGap(sorted, g) ==
    IF sorted = <<>>
      THEN <<g>>
    ELSE IF GapKeyLeq(Head(sorted), g)
      THEN <<Head(sorted)>> \o InsertGap(Tail(sorted), g)
    ELSE <<g>> \o sorted

RECURSIVE SortGaps(_, _, _)
SortGaps(gaps, i, sorted) ==
    IF i > Len(gaps)
      THEN sorted
      ELSE SortGaps(gaps, i + 1, InsertGap(sorted, gaps[i]))

\* coverage_analyzer._find_gap_ranges on the parsed codes: the top 30 gaps
_find_gap_ranges(codes) ==
    LET gaps == SortGaps(AllGaps(codes, 1), 1, <<>>)
    IN SubSeq(gaps, 1, Min(30, Len(gaps)))

\* analyze_coverage: one call of _find_gap_ranges
FindGaps(codes) ==
    /\ ~cov_done
    /\ cov_done' = TRUE
    /\ cov_codes' = codes
    /\ cov_gaps' = _find_gap_ranges(codes)
    /\ UNCHANGED nonCovVars

CovInit ==
    /\ cov_done = FALSE
    /\ cov_codes = [p \in PrefixNames |-> {}]
    /\ cov_gaps = <<>>

\* the crawler replicas, the crawl_queue rows and the hashes of page texts
Crawlers == 1..MaxCrawlers

CrawlJobs == 1..MaxCrawlJobs

Hashes == {"h1", "h2"}

\* the researcher submits a URL: a crawl_queue row and its id on jobs:crawl
SubmitUrl(j) ==
    /\ crawl_status[j] = "none"
    /\ crawl_status' = [crawl_status EXCEPT ![j] = "pending"]
    /\ crawl_queue' = Append(crawl_queue, j)
    /\ UNCHANGED <<documents, crawl_pc, crawl_job, crawl_hash, crawl_existing,
                   chunk_jobs>>
    /\ UNCHANGED nonCrawlVars

\* main: pop_job, then process_crawl_job marks the row 'crawling'
CrawlPop(c) ==
    /\ crawl_pc[c] = "poll"
    /\ crawl_queue # <<>>
    /\ crawl_job' = [crawl_job EXCEPT ![c] = Head(crawl_queue)]
    /\ crawl_queue' = Tail(crawl_queue)
    /\ crawl_status' = [crawl_status EXCEPT ![Head(crawl_queue)] = "crawling"]
    /\ crawl_pc' = [crawl_pc EXCEPT ![c] = "fetch"]
    /\ UNCHANGED <<documents, crawl_hash, crawl_existing,
                   chunk_jobs>>
    /\ UNCHANGED nonCrawlVars

\* fetch_url, text extraction and sha256 of the text
CrawlFetch(c, h) ==
    /\ crawl_pc[c] = "fetch"
    /\ crawl_hash' = [crawl_hash EXCEPT ![c] = h]
    /\ crawl_pc' = [crawl_pc EXCEPT ![c] = "check"]
    /\ UNCHANGED <<crawl_queue, crawl_status, documents, crawl_job, crawl_existing,
                   chunk_jobs>>
    /\ UNCHANGED nonCrawlVars

\* the fetch fails or the text is too short: the row is marked 'failed'
CrawlFail(c) ==
    /\ crawl_pc[c] = "fetch"
    /\ crawl_status' = [crawl_status EXCEPT ![crawl_job[c]] = "failed"]
    /\ crawl_pc' = [crawl_pc EXCEPT ![c] = "poll"]
    /\ UNCHANGED <<crawl_queue, documents, crawl_job, crawl_hash, crawl_existing,
                   chunk_jobs>>
    /\ UNCHANGED nonCrawlVars

\* SELECT id FROM research.documents WHERE content_hash = %s
CrawlCheck(c) ==
    /\ crawl_pc[c] = "check"
    /\ crawl_existing' = [crawl_existing EXCEPT ![c] =
                       \E i \in 1..Len(documents) :
                           documents[i].content_hash = crawl_hash[c]]
    /\ crawl_pc' = [crawl_pc EXCEPT ![c] = "decide"]
    /\ UNCHANGED <<crawl_queue, crawl_status, documents, crawl_job, crawl_hash,
                   chunk_jobs>>
    /\ UNCHANGED nonCrawlVars

\* if existing: mark the row 'completed' and return
CrawlSkip(c) ==
    /\ crawl_pc[c] = "decide"
    /\ crawl_existing[c]
    /\ crawl_status' = [crawl_status EXCEPT ![crawl_job[c]] = "completed"]
    /\ crawl_pc' = [crawl_pc EXCEPT ![c] = "poll"]
    /\ UNCHANGED <<crawl_queue, documents, crawl_job, crawl_hash, crawl_existing,
                   chunk_jobs>>
    /\ UNCHANGED nonCrawlVars

\* the documents table accepts a row whatever its content_hash: the hash is
\* metadata of the document, only its identifier is unique
InsertDocument(docs, row) ==
    Append(docs, row)

\* store the text and INSERT INTO research.documents, committed
CrawlInsert(c) ==
    /\ crawl_pc[c] = "decide"
    /\ ~crawl_existing[c]
    /\ documents' = InsertDocument(documents, [content_hash |-> crawl_hash[c],
                                               crawl |-> crawl_job[c]])
    /\ crawl_pc' = [crawl_pc EXCEPT ![c] = "mark"]
    /\ UNCHANGED <<crawl_queue, crawl_status, crawl_job, crawl_hash,
                   crawl_existing, chunk_jobs>>
    /\ UNCHANGED nonCrawlVars

\* mark the crawl row 'completed'
CrawlMark(c) ==
    /\ crawl_pc[c] = "mark"
    /\ crawl_status' = [crawl_status EXCEPT ![crawl_job[c]] = "completed"]
    /\ crawl_pc' = [crawl_pc EXCEPT ![c] = "push"]
    /\ UNCHANGED <<crawl_queue, documents, crawl_job, crawl_hash,
                   crawl_existing, chunk_jobs>>
    /\ UNCHANGED nonCrawlVars

\* push_job(Config.NEXT_QUEUE, doc_id)
CrawlPush(c) ==
    /\ crawl_pc[c] = "push"
    /\ chunk_jobs' = chunk_jobs \cup {crawl_job[c]}
    /\ crawl_pc' = [crawl_pc EXCEPT ![c] = "log"]
    /\ UNCHANGED <<crawl_queue, crawl_status, documents, crawl_job,
                   crawl_hash, crawl_existing>>
    /\ UNCHANGED nonCrawlVars

\* log_processing(doc_id, "crawling", "completed", ...)
CrawlLog(c) ==
    /\ crawl_pc[c] = "log"
    /\ crawl_pc' = [crawl_pc EXCEPT ![c] = "poll"]
    /\ UNCHANGED <<crawl_queue, crawl_status, documents, crawl_job,
                   crawl_hash, crawl_existing, chunk_jobs>>
    /\ UNCHANGED nonCrawlVars

\* the UPDATE, push_job (Redis) or log_processing raises after the document
\* row was committed: `except Exception` marks the crawl row 'failed'
CrawlError(c) ==
    /\ crawl_pc[c] \in {"mark", "push", "log"}
    /\ crawl_status' = [crawl_status EXCEPT ![crawl_job[c]] = "failed"]
    /\ crawl_pc' = [crawl_pc EXCEPT ![c] = "poll"]
    /\ UNCHANGED <<crawl_queue, documents, crawl_job, crawl_hash,
                   crawl_existing, chunk_jobs>>
    /\ UNCHANGED nonCrawlVars

CrawlInit ==
    /\ crawl_queue = <<>>
    /\ crawl_status = [j \in CrawlJobs |-> "none"]
    /\ documents = <<>>
    /\ crawl_pc = [c \in Crawlers |-> "poll"]
    /\ crawl_job = [c \in Crawlers |-> 0]
    /\ crawl_hash = [c \in Crawlers |-> ""]
    /\ crawl_existing = [c \in Crawlers |-> FALSE]
    /\ chunk_jobs = {}

\* a field no candidate carries: c.get(field) is None
NoneValue == -1

\* the value fields of a PID range and the values candidates carry
RangeFields == {"normal_range_min", "normal_range_max"}

RangeValues == {NoneValue, 0, 20, 21, 50}

NumCandidates ==
    [score : {60, 80}, normal_range_min : RangeValues,
     normal_range_max : RangeValues]

NumCandLists == UNION {[1..n -> NumCandidates] : n \in 0..MaxNumCands}

\* value_fields: the two fields in either order, or one of them, or none
FieldLists ==
    {<<>>, <<"normal_range_min">>, <<"normal_range_max">>,
     <<"normal_range_min", "normal_range_max">>,
     <<"normal_range_max", "normal_range_min">>}

\* the {} merged entity of an empty candidate list
EmptyEntity ==
    [score |-> 0, normal_range_min |-> NoneValue,
     normal_range_max |-> NoneValue]

\* values: float(c.get(field)) of the candidates that carry the field
RECURSIVE FieldValues(_, _, _)
FieldValues(cands, field, i) ==
    IF i > Len(cands)
      THEN <<>>
    ELSE IF cands[i][field] = NoneValue
      THEN FieldValues(cands, field, i + 1)
    ELSE <<cands[i][field]>> \o FieldValues(cands, field, i + 1)

AbsDiff(a, b) == IF a >= b THEN a - b ELSE b - a

\* a later value differs from values[0] by more than 20%
TopDisagrees(values) ==
    \E i \in 2..Len(values) :
        IF values[1] = 0
          THEN values[i] # 0
          ELSE AbsDiff(values[i], values[1]) * 5 > values[1]

SeqMinimum(values) ==
    CHOOSE v \in {values[i] : i \in 1..Len(values)} :
        \A i \in 1..Len(values) : v <= values[i]

SeqMaximum(values) ==
    CHOOSE v \in {values[i] : i \in 1..Len(values)} :
        \A i \in 1..Len(values) : v >= values[i]

\* field.endswith("_min"), field.endswith("_max")
endswith_min(field) == field = "normal_range_min"

endswith_max(field) == field = "normal_range_max"

\* the loop `for field in value_fields` from field i on; conflict_flag keeps
\* the value the earlier fields left
RECURSIVE merge_fields(_, _, _, _, _)
merge_fields(cands, fields, i, winner, conflict_flag) ==
    IF i > Len(fields)
      THEN [entity |-> winner, conflict_flag |-> conflict_flag]
      ELSE LET field == fields[i]
               values == FieldValues(cands, field, 1)
               flag == conflict_flag \/ TopDisagrees(values)
           IN IF Len(values) <= 1
                THEN merge_fields(cands, fields, i + 1, winner, conflict_flag)
              ELSE IF flag /\ endswith_min(field)
                THEN merge_fields(cands, fields, i + 1,
                                  [winner EXCEPT ![field] = SeqMinimum(values)],
                                  flag)
              ELSE IF flag /\ endswith_max(field)
                THEN merge_fields(cands, fields, i + 1,
                                  [winner EXCEPT ![field] = SeqMaximum(values)],
                                  flag)
              ELSE merge_fields(cands, fields, i + 1, winner, flag)

\* merge_numeric_ranges(candidates, value_fields)
merge_numeric_ranges(candidates, value_fields) ==
    IF candidates = <<>>
      THEN [entity |-> EmptyEntity, conflict_flag |-> FALSE]
    ELSE IF Len(candidates) = 1
      THEN [entity |-> candidates[1], conflict_flag |-> FALSE]
    ELSE LET sorted == SortByScore(candidates, 1, <<>>)
         IN merge_fields(sorted, value_fields, 1, sorted[1], FALSE)

NumCall(cands, fields) ==
    /\ ~num_done
    /\ num_done' = TRUE
    /\ num_cands' = cands
    /\ num_fields' = fields
    /\ num_result' = merge_numeric_ranges(cands, fields)
    /\ UNCHANGED nonNumVars

NumInit ==
    /\ num_done = FALSE
    /\ num_cands = <<>>
    /\ num_fields = <<>>
    /\ num_result = [entity |-> EmptyEntity, conflict_flag |-> FALSE]

NumNext ==
    /\ ~num_done
    /\ \E cands \in NumCandLists, fields \in FieldLists : NumCall(cands, fields)

\* the stages with rows in processing_log, and the counts of a stage's rows
\* (failed, total); total 0: the stage has no row in the window
AuditStages == {"chunking", "embedding"}

LogCounts ==
    {c \in [failed : {0, 1, 3}, total : {0, 6, 7, 20}] : c.failed <= c.total}

\* the stuck documents analyze_error_rates found, the depths of two of the
\* pipeline queues (the others are empty), and what the quality and the
\* coverage analyzers found
AuditInputs ==
    [stuck_count : {0, 5, 6},
     rows : [AuditStages -> LogCounts],
     crawl_depth : {0, 25, 26}, chunk_depth : {0, 25, 26},
     low_confidence : BOOLEAN, incomplete : BOOLEAN, high_gaps : BOOLEAN]

\* round(failed / total, 4) in units of 0.0001; the totals of LogCounts give
\* no tie
error_rate(c) ==
    IF c.total > 0 THEN (c.failed * 20000 + c.total) \div (2 * c.total) ELSE 0

\* detect_bottleneck(): total_queued = sum(queue_depths.values())
total_queued(in) ==
    SumDepths([q \in ALL_QUEUES |->
                 IF q = "jobs:crawl" THEN in.crawl_depth
                 ELSE IF q = "jobs:chunk" THEN in.chunk_depth ELSE 0],
              ALL_QUEUES)

\* get_pipeline_summary() with the last test left out
health_before_busy(in) ==
    IF \/ in.stuck_count > 5
       \/ \E st \in AuditStages :
            in.rows[st].total > 0 /\ error_rate(in.rows[st]) > 1500
      THEN "degraded"
      ELSE "healthy"

\* get_pipeline_summary(): the three tests assign health in this order
get_pipeline_summary(in) ==
    IF total_queued(in) > 50 THEN "busy" ELSE health_before_busy(in)

\* _generate_recommendations(): the types it appends, sorted by priority
\* (fix_pipeline 1, reprocess_errors 2, fill_gaps 4, improve_confidence 5,
\* expand_coverage 6)
_generate_recommendations(in, pipeline_health) ==
    (IF pipeline_health = "degraded" THEN <<"fix_pipeline">> ELSE <<>>)
      \o (IF in.stuck_count > 0 THEN <<"reprocess_errors">> ELSE <<>>)
      \o (IF in.incomplete THEN <<"fill_gaps">> ELSE <<>>)
      \o (IF in.low_confidence THEN <<"improve_confidence">> ELSE <<>>)
      \o (IF in.high_gaps THEN <<"expand_coverage">> ELSE <<>>)

\* run_full_audit(): the analyzers, then generate_full_report
run_full_audit(in) ==
    /\ ~audited
    /\ audited' = TRUE
    /\ audit_input' = in
    /\ audit_health' = get_pipeline_summary(in)
    /\ audit_recs' = _generate_recommendations(in, get_pipeline_summary(in))
    /\ UNCHANGED nonAuditVars

AuditInit ==
    /\ audited = FALSE
    /\ audit_input = CHOOSE in \in AuditInputs :
                       /\ in.stuck_count = 0
                       /\ \A st \in AuditStages : in.rows[st].total = 0
                       /\ in.crawl_depth = 0 /\ in.chunk_depth = 0
                       /\ ~in.low_confidence /\ ~in.incomplete /\ ~in.high_gaps
    /\ audit_health = "healthy"
    /\ audit_recs = <<>>

AuditNext ==
    /\ ~audited
    /\ \E in \in AuditInputs : run_full_audit(in)

\* the rows of refined.dtc_codes; source_count orders them, the code with
\* the greatest count first
VerCodes == 1..MaxVerCodes

source_count(c) == MaxVerCodes - c

VerStatuses == {"verified", "disputed", "corrected", "uncertain"}

\* WHERE verified_at IS NULL OR verification_status = 'unverified'
Unverified == {c \in VerCodes : ver_status[c] = "unverified"}

\* get_unverified_code(): ORDER BY d.source_count DESC ... LIMIT 1
get_unverified_code ==
    CHOOSE c \in Unverified :
        \A d \in Unverified : source_count(c) >= source_count(d)

\* the API starts failing the requests for a code, or answering them with
\* text parse_verification cannot read
ApiBreaks(c) ==
    /\ c \notin ver_broken
    /\ ver_broken' = ver_broken \cup {c}
    /\ UNCHANGED <<ver_status, ver_pc, ver_sel, ver_nokey>>
    /\ UNCHANGED nonVerVars

\* verify_one(): dtc_data = get_unverified_code()
VerifySelect ==
    /\ ver_pc = "sleep"
    /\ Unverified # {}
    /\ ver_sel' = get_unverified_code
    /\ ver_pc' = "verify_one"
    /\ UNCHANGED <<ver_status, ver_broken, ver_nokey>>
    /\ UNCHANGED nonVerVars

\* get_best_key() returns no key: return False
VerifyNoKey ==
    /\ ver_pc = "verify_one"
    /\ ver_nokey < MaxNoKey
    /\ ver_nokey' = ver_nokey + 1
    /\ ver_pc' = "sleep"
    /\ UNCHANGED <<ver_status, ver_broken, ver_sel>>
    /\ UNCHANGED nonVerVars

\* chat_completion raises or parse_verification returns None: return False,
\* the row of the code is not written
VerifyFailed ==
    /\ ver_pc = "verify_one"
    /\ ver_sel \in ver_broken
    /\ ver_pc' = "sleep"
    /\ UNCHANGED <<ver_status, ver_broken, ver_sel, ver_nokey>>
    /\ UNCHANGED nonVerVars

\* process_verification_result(): verified_at = NOW(), verification_status
process_verification_result(status) ==
    /\ ver_pc = "verify_one"
    /\ ver_sel \notin ver_broken
    /\ ver_status' = [ver_status EXCEPT ![ver_sel] = status]
    /\ ver_pc' = "sleep"
    /\ UNCHANGED <<ver_broken, ver_sel, ver_nokey>>
    /\ UNCHANGED nonVerVars

\* one step of the verification worker
VerifierStep ==
    \/ VerifySelect
    \/ VerifyNoKey
    \/ VerifyFailed
    \/ \E st \in VerStatuses : process_verification_result(st)

VerInit ==
    /\ ver_status = [c \in VerCodes |-> "unverified"]
    /\ ver_broken = {}
    /\ ver_pc = "sleep"
    /\ ver_sel = 1
    /\ ver_nokey = 0

VerNext ==
    \/ \E c \in VerCodes : ApiBreaks(c)
    \/ VerifySelect
    \/ VerifyNoKey
    \/ VerifyFailed
    \/ \E st \in VerStatuses : process_verification_result(st)

Init ==
    PipeInit /\ ExtInit /\ ResInit /\ RateInit /\ HealInit /\ MonInit
      /\ KeyInit /\ DirInit /\ OrchInit /\ ShutInit /\ MergeInit
      /\ ScoreInit /\ ChunkInit /\ CovInit /\ CrawlInit /\ NumInit
      /\ AuditInit /\ VerInit

Next ==
    \/ \E d \in Docs : ingest(d)
    \/ \E d \in Docs : process_crawl_job(d)
    \/ \E w \in Workers : Poll(w)
    \/ \E w \in Workers : PollNone(w)
    \/ \E w \in Workers : PollRaise(w)
    \/ \E w \in Workers : SetStage(w)
    \/ \E w \in Workers : LogStarted(w)
    \/ \E w \in Workers : Work(w)
    \/ \E w \in Workers : LogCompleted(w)
    \/ \E w \in Workers : Advance(w)
    \/ \E w \in Workers : Push(w)
    \/ \E w \in Workers : Raise(w)
    \/ \E w \in Workers : ErrStage(w)
    \/ \E w \in Workers : ErrLog(w)
    \/ \E w \in Workers : ErrSwallow(w)
    \/ \E w \in Workers : Crash(w)
    \/ \E s \in ProcStageSet : requeue_documents(s)
    \/ \E t \in ProcStageSet : requeue_error_documents(t)

Spec ==
    Init /\ [][Next]_vars

ExtNext ==
    \/ \E c \in Chunks, l \in DtcLists : store_extraction(c, l)
    \/ store_extraction_rollback

SpecExtract ==
    Init /\ [][ExtNext]_vars

ResNext ==
    \/ \E r \in RawDescs, l \in Likelihoods, c \in Chunks : store_cause(r, l, c)
    \/ \E c \in Chunks, e \in EvalScores : evaluate_chunk(c, e)
    \/ deduplicate_causes
    \/ upsert_causes
    \/ upsert_rollback

SpecResolve ==
    Init /\ [][ResNext]_vars

RateNext ==
    \/ \E r \in Researchers, h \in Hosts : submit_url(r, h)
    \/ \E r \in Researchers, isNew \in BOOLEAN : InsertCrawl(r, isNew)
    \/ \E r \in Researchers : PushCrawl(r)
    \/ \E r \in Researchers : RegisterDomain(r)
    \/ \E r \in Researchers : increment_rate_counters(r)
    \/ \E r \in Researchers : SubmitRaise(r)
    \/ Tick

SpecRate ==
    Init /\ [][RateNext]_vars

HealNext ==
    \/ \E k \in AlertKinds : emit_alert(k)
    \/ \E h \in Healers : PopAlert(h)
    \/ \E h \in Healers : IdemExists(h)
    \/ \E h \in Healers : IdemSetex(h)
    \/ \E h \in Healers : AnalyzeFailed(h)
    \/ \E h \in Healers, a \in Analyses : Analyze(h, a)
    \/ \E h \in Healers : AllowGate(h)
    \/ \E h \in Healers : RateGate(h)
    \/ \E h \in Healers : Decide(h)
    \/ \E h \in Healers : Execute(h)
    \/ \E h \in Healers : record_action(h)
    \/ HealTick

SpecHeal ==
    Init /\ [][HealNext]_vars

MonNext ==
    \/ run_monitoring_cycle
    \/ \E d \in 0..MaxDepth : QueueChange(d)
    \/ \E st \in {"healthy", "unhealthy"} : ContainerChange(st)
    \/ \E st \in MonStages : DocChange(st)
    \/ MonTick

SpecMon ==
    Init /\ [][MonNext]_vars

DirNext ==
    \/ \E h \in Hosts : autonomous_submit(h)
    \/ \E n \in 1..MaxRangeUrls : receive_directive(n)
    \/ RangeStep
    \/ RangeEnd
    \/ DirectiveReport
    \/ DirectiveNext
    \/ Tick

SpecDirective ==
    Init /\ [][DirNext]_vars

KeyNext ==
    \/ StartCall
    \/ get_best_key
    \/ \E rem \in RemainingHeaders, reset \in BOOLEAN : Respond200(rem, reset)
    \/ Respond429
    \/ RespondError
    \/ \E k \in KeyIds : SetLimited(k)
    \/ \E k \in KeyIds : ResetTimePasses(k)

SpecKeys ==
    Init /\ [][KeyNext]_vars

\* the orchestrator with the auditor and the researcher handling directives
AgentsNext ==
    \/ run_cycle
    \/ run_cycle_TimeoutError
    \/ \E r \in Reports : handle_directive(r)
    \/ handle_research_directive
    \/ \E c \in Commands : send_command(c)

OrchNext ==
    \/ run_cycle
    \/ run_cycle_TimeoutError
    \/ \E q \in ChangingQueues, d \in 0..MaxQueueDepth : OrchQueueChange(q, d)
    \/ \E r \in Reports : store_audit_report(r)
    \/ \E c \in Commands : send_command(c)

SpecOrch ==
    Init /\ [][OrchNext]_vars

TaskNext ==
    \/ \E t \in TaskTypes : create_task(t)
    \/ \E id \in TaskIds : start_task(id)
    \/ \E id \in TaskIds : complete_task(id)
    \/ \E id \in TaskIds : fail_task(id)
    \/ \E id \in TaskIds : cancel_task(id)

SpecTasks ==
    Init /\ [][TaskNext]_vars

\* the pipeline with every stage worker kept running (no worker is dropped)
\* and no healer action
PipeFairNext ==
    \/ \E d \in Docs : ingest(d)
    \/ \E d \in Docs : process_crawl_job(d)
    \/ \E w \in Workers : Poll(w)
    \/ \E w \in Workers : PollNone(w)
    \/ \E w \in Workers : PollRaise(w)
    \/ \E w \in Workers : SetStage(w)
    \/ \E w \in Workers : LogStarted(w)
    \/ \E w \in Workers : Work(w)
    \/ \E w \in Workers : LogCompleted(w)
    \/ \E w \in Workers : Advance(w)
    \/ \E w \in Workers : Push(w)
    \/ \E w \in Workers : Raise(w)
    \/ \E w \in Workers : ErrStage(w)
    \/ \E w \in Workers : ErrLog(w)
    \/ \E w \in Workers : ErrSwallow(w)

\* the next statement of worker w's main loop, whatever its outcome: every
\* call returns or fails
WorkerStep(w) ==
    \/ Poll(w)
    \/ PollNone(w)
    \/ PollRaise(w)
    \/ SetStage(w)
    \/ LogStarted(w)
    \/ Work(w)
    \/ LogCompleted(w)
    \/ Advance(w)
    \/ Push(w)
    \/ Raise(w)
    \/ ErrStage(w)
    \/ ErrLog(w)
    \/ ErrSwallow(w)

\* every stage worker keeps running and is scheduled fairly
SpecPipeFair ==
    Init /\ [][PipeFairNext]_vars /\ \A w \in Workers : WF_vars(WorkerStep(w))

ShutNext ==
    \/ \E w \in StageWorkers : StartWorker(w)
    \/ LoopCheck
    \/ ShutPoll
    \/ ShutProcess
    \/ cleanup
    \/ \E sig \in Signals : _handle_signal(sig)
    \/ ShutEnqueue

SpecShutdown ==
    Init /\ [][ShutNext]_vars

MergeNext ==
    /\ merge_in = <<>>
    /\ \E cands \in CandLists : MergeCall(cands)

SpecMerge ==
    Init /\ [][MergeNext]_vars

ScoreNext ==
    /\ ~scored
    /\ \E e \in ScoreEntities, ctx \in ScoreContexts : ScoreCall(e, ctx)

SpecScore ==
    Init /\ [][ScoreNext]_vars

ChunkNext ==
    /\ ~chunked
    /\ \E a \in ChunkInputs : ChunkCall(a)

SpecChunk ==
    Init /\ [][ChunkNext]_vars

CovNext ==
    /\ ~cov_done
    /\ \E codes \in CodeSets : FindGaps(codes)

SpecCoverage ==
    Init /\ [][CovNext]_vars

CrawlNext ==
    \/ \E j \in CrawlJobs : SubmitUrl(j)
    \/ \E c \in Crawlers : CrawlPop(c)
    \/ \E c \in Crawlers, h \in Hashes : CrawlFetch(c, h)
    \/ \E c \in Crawlers : CrawlFail(c)
    \/ \E c \in Crawlers : CrawlCheck(c)
    \/ \E c \in Crawlers : CrawlSkip(c)
    \/ \E c \in Crawlers : CrawlInsert(c)
    \/ \E c \in Crawlers : CrawlMark(c)
    \/ \E c \in Crawlers : CrawlPush(c)
    \/ \E c \in Crawlers : CrawlLog(c)
    \/ \E c \in Crawlers : CrawlError(c)

SpecCrawl ==
    Init /\ [][CrawlNext]_vars

SpecNum ==
    Init /\ [][NumNext]_vars

SpecAudit ==
    Init /\ [][AuditNext]_vars

SpecAgents ==
    Init /\ [][AgentsNext]_vars

\* main() of the verification worker loops for ever
SpecVerifyFair ==
    Init /\ [][VerNext]_vars /\ WF_vars(VerifierStep)

\* the monitoring loop keeps running cycles and time keeps passing
SpecMonFair ==
    SpecMon /\ WF_vars(run_monitoring_cycle) /\ WF_vars(MonTick)

(***************************************************************************)
(* Claims about the pipeline (specification Spec)                          *)
(***************************************************************************)
\* C1: a document whose processing_stage is `complete` has a `completed` log
\* row for each of chunking, embedding, evaluating, extracting and resolving.
C1_StageMonotonicity ==
    \A d \in Docs :
        stage[d] = "complete" =>
            \A s \in ProcStageSet : <<d, s, "completed">> \in log

\* C2: when a worker is dropped after it popped a document and before it
\* finished the job, the payload is in the worker's queue again, so that the
\* next poll of that queue can yield it.
C2_AtLeastOnce ==
    [][\A w \in Workers :
          (Crash(w) /\ pc[w] \in InProcess) =>
              \E i \in 1..Len(queue'[w]) : queue'[w][i] = job[w]]_vars

\* C3: processing_stage never moves to an earlier stage; the only exception
\* is the move to `error`, and a document in `error` changes stage only
\* through the healer, never through a stage worker.
C3_NoBackwardStage ==
    [][\A d \in Docs :
          stage'[d] # stage[d] =>
              \/ stage'[d] = "error"
              \/ stage[d] # "error" /\ StageRank(stage'[d]) > StageRank(stage[d])
              \/ stage[d] = "error"
                   /\ \E t \in ProcStageSet : requeue_error_documents(t)]_vars

\* C4: once processing_stage is `complete` no action changes it.
C4_FrozenAtComplete ==
    [][\A d \in Docs : stage[d] = "complete" => stage'[d] = "complete"]_vars

\* C5: no two workers are inside process_document for the same document.
C5_SingleOwnership ==
    \A w1, w2 \in Workers :
        (w1 # w2 /\ pc[w1] \in InProcess /\ pc[w2] \in InProcess) =>
            job[w1] # job[w2]

\* C6: the stage update and the log insert of one transition are committed
\* together: whenever no worker is in the middle of its loop body, every
\* committed update to `error` has its `failed` log row and vice versa.
C6_StageAndLogTransactional ==
    (\A w \in Workers : pc[w] = "poll") =>
        \A d \in Docs : nErrStage[d] = nFailedLog[d]

\* C7: a failed queue push in advance_to_next_stage leaves the document in
\* the advanced stage: handling that failure does not change its stage.
C7_PushFailureKeepsStage ==
    [][\A w \in Workers :
          (exc[w] = "push" /\ ErrStage(w)) =>
              stage'[job[w]] = stage[job[w]]]_vars

(***************************************************************************)
(* Claims about the extraction store (specification SpecExtract)           *)
(***************************************************************************)
\* the number of (dtc_id, chunk_id) links recorded for a code's row
LinkCount(code) ==
    Cardinality({l \in dtc_sources : l[1] = dtc_codes[code].id})

\* C8: every DTC row's source_count equals the number of distinct
\* (dtc_id, chunk_id) links recorded for it, after any sequence of
\* extraction runs including re-delivery of the same chunk.
C8_SourceCountMatchesLinks ==
    \A code \in Codes :
        dtc_codes[code].id # 0 =>
            dtc_codes[code].source_count = LinkCount(code)

(***************************************************************************)
(* Claims about resolution (specification SpecResolve)                     *)
(***************************************************************************)
\* C9: running the resolve stage again when nothing was extracted or
\* evaluated since the last committed run leaves every refined cause row and
\* every knowledge cause row (evidence_count and avg_trust included) as it is.
C9_ResolveIdempotent ==
    [][(~dirty /\ (deduplicate_causes \/ upsert_causes)) =>
          (refined_causes' = refined_causes
             /\ knowledge_causes' = knowledge_causes)]_vars

(***************************************************************************)
(* Claims about the researcher's rate limiter (specification SpecRate)     *)
(***************************************************************************)
RECURSIVE SumAges(_, _)
\* the pushes for a domain in the ages 0..a
SumAges(d, a) ==
    IF a < 0 THEN 0 ELSE crawl_pushed[d][a] + SumAges(d, a - 1)

\* the URLs of a domain pushed to jobs:crawl within the last hour
PushedLastHour(d) ==
    SumAges(d, HourTicks - 1)

RECURSIVE SumDomains(_)
SumDomains(S) ==
    IF S = {} THEN 0
    ELSE LET d == CHOOSE x \in S : TRUE
         IN PushedLastHour(d) + SumDomains(S \ {d})

\* C10: in every one-hour window at most MAX_URLS_PER_HOUR URLs are pushed
\* to the crawl queue in total and at most MAX_PER_DOMAIN_PER_HOUR per
\* domain, for one or several replicas sharing the counters.
C10_RateLimitSafety ==
    /\ SumDomains(Domains) <= MAX_URLS_PER_HOUR
    /\ \A d \in Domains : PushedLastHour(d) <= MAX_PER_DOMAIN_PER_HOUR

(***************************************************************************)
(* Claims about the healer (specification SpecHeal)                        *)
(***************************************************************************)
RECURSIVE SumExecuted(_)
\* the healing actions executed in the ages 0..a
SumExecuted(a) ==
    IF a < 0 THEN 0 ELSE executed_ages[a] + SumExecuted(a - 1)

ExecutedLastHour ==
    SumExecuted(HealHourTicks - 1)

\* C11: in every one-hour window the healer executes at most
\* MAX_ACTIONS_PER_HOUR healing actions, and no action is executed while the
\* limit is reached.
C11_HealerRateLimit ==
    /\ [](ExecutedLastHour <= MAX_ACTIONS_PER_HOUR)
    /\ [][\A h \in Healers :
            Execute(h) => action_count.val < MAX_ACTIONS_PER_HOUR]_vars

\* the action type is in AUTO_FIX_ALLOW and not in AUTO_FIX_DENY
AllowListed(action) ==
    action[1] \in allow_list /\ action[1] \notin deny_list

C13_AlertDeduplication ==
    \A fp \in Fingerprints : analysed_fp[fp] <= 1

(***************************************************************************)
(* Claims about the monitor (specifications SpecMon, SpecMonFair)          *)
(***************************************************************************)
\* C14: when consecutive monitoring cycles that saw the same non-zero queue
\* depth span at least QUEUE_STALL_THRESHOLD, a stalled_queue alert
\* recommending restart_worker:<name> has been sent, whatever the interval
\* between the cycles.
C14_StalledQueueDetected ==
    stall_span >= QUEUE_STALL_THRESHOLD => stall_alerts >= 1

\* C15: a container seen unhealthy in every cycle for longer than the grace
\* period eventually gets a restart_container alert (unless it recovers),
\* and none is sent while it has been unhealthy for less than the grace
\* period.
C15_UnhealthyContainerDetected ==
    /\ (unhealthy_for > grace_period)
         ~> (unhealthy_alerts >= 1 \/ unhealthy_for = -1)
    /\ []((unhealthy_for # -1 /\ unhealthy_for < grace_period)
            => unhealthy_alerts = 0)

C17_KeyRotation ==
    ( /\ limited = {1}
      /\ Len(request_log) >= 2
      /\ request_log[1] = <<1, 429>> ) =>
        /\ request_log[2] = <<2, 200>>
        /\ key_info[1].requests_made = 1
        /\ key_info[1].last_error = "rate_limited"

(***************************************************************************)
(* Claims about the directive handler (specification SpecDirective)        *)
(***************************************************************************)
\* C18: an expand_coverage directive whose range yields more valid new URLs
\* than there are submissions left under MAX_URLS_PER_HOUR (5 in the
\* scenario) gets exactly that many URLs submitted, the rest is not
\* submitted.
C18_DirectiveSubmitsRemaining ==
    ( /\ dpc = "done"
      /\ dcooled
      /\ dremaining >= 1
      /\ ddomroom >= dremaining
      /\ dcount > dremaining ) => dsubmitted = dremaining

(***************************************************************************)
(* Claims about the orchestrator (specifications SpecOrch, SpecTasks)      *)
(***************************************************************************)
\* the observed state is under backpressure: total_queued above the heavy-load
\* mark, or the GPU queues (evaluate + extract + embed) at the threshold
Backpressure(system_state) ==
    \/ system_state.total_queued > HeavyLoad
    \/ system_state.gpu_load >= MAX_GPU_QUEUE_ITEMS

\* C19: a cycle that observed total_queued above the heavy-load mark, or a
\* GPU-queue sum at or above its threshold, decides no `research` action,
\* executes none, and pushes no research directive of its own (the only jobs
\* the cycle may add to orchestrator:research are manual commands it relays).
C19_Backpressure ==
    /\ [](Backpressure(observed) =>
            /\ \A i \in 1..Len(decided) : decided[i].type # "research"
            /\ \A i \in 1..Len(executed) : executed[i] # "research")
    /\ [][(run_cycle /\ Backpressure(observed')) =>
            \A i \in (Len(research_queue) + 1)..Len(research_queue') :
                research_queue'[i].type = "manual"]_vars

\* C19 witness: a cycle ran with the GPU queues at the threshold, crawl
\* capacity free and total_queued not above the mark, and only waited, while
\* the audit report recommends research
C19_Witness ==
    /\ observed.gpu_load >= MAX_GPU_QUEUE_ITEMS
    /\ observed.total_queued <= HeavyLoad
    /\ observed.crawl_available
    /\ audit_report.present
    /\ \E i \in 1..Len(audit_report.recommendations) :
          /\ audit_report.recommendations[i].type = "improve_confidence"
          /\ audit_report.recommendations[i].has_targets
    /\ executed = <<"wait">>
    /\ Len(decided) = 1
    /\ decided[1].type = "wait"

\* C20: after any sequence of create_task / start_task / fail_task /
\* complete_task / cancel_task calls, every task has retry_count <= 3.
C20_RetryCountAtMostThree ==
    \A id \in 1..Len(tasks) : tasks[id].retry_count <= 3

(***************************************************************************)
(* Claims about the pipeline under fair scheduling (SpecPipeFair)          *)
(***************************************************************************)
\* C21: every document that entered the pipeline (it has a row, created by
\* ingestion or by the crawler) eventually reaches processing_stage
\* `complete` or `error`, when every stage worker keeps running and is
\* scheduled fairly and every call returns or fails.
C21_EventuallyTerminal ==
    \A d \in Docs :
        (stage[d] # "none") ~> (stage[d] \in {"complete", "error"})

(***************************************************************************)
(* Claims about shutdown (specification SpecShutdown)                      *)
(***************************************************************************)
\* C22: after a signal was delivered to a stage worker, the process ends only
\* by exiting with its connections released and with the job that was in
\* flight finished, and a loop iteration that begins after the signal polls
\* for no further job (the flag is checked on every iteration).
C22_GracefulShutdown ==
    /\ [](ssignalled =>
            /\ spc # "killed"
            /\ spc = "exited" => (sreleased /\ ~sjob))
    /\ [][(LoopCheck /\ ssignalled) => spc' # "poll"]_vars

(***************************************************************************)
(* Further claims about resolution (specification SpecResolve)             *)
(***************************************************************************)
\* two documents (chunks of different documents) each contributed one cause
\* with the same description, their trust scores are those their chunks had
\* when the causes were stored, and a resolve run with its knowledge upsert
\* was committed for each of them
TwoDocsSameCauseResolved ==
    /\ Len(stored_causes) = 2
    /\ stored_causes[1].chunk # stored_causes[2].chunk
    /\ stored_causes[1].description = stored_causes[2].description
    /\ \A i \in 1..2 :
          stored_causes[i].trust =
              (IF chunk_eval[stored_causes[i].chunk] = NoEval
                 THEN DefaultScore
                 ELSE chunk_eval[stored_causes[i].chunk].trust)
    /\ resolveRuns = 2
    /\ commits = 2
    /\ resolvePc = "idle"
    /\ ~dirty

\* C23: when two documents each contribute one cause with the same
\* description for the same DTC, then after both have passed resolve and
\* knowledge upsert the knowledge cause table has exactly one row for the
\* cause, with evidence_count = 2 and avg_trust the mean of the two trusts.
C23_TwoDocsOneCauseRow ==
    TwoDocsSameCauseResolved =>
        LET key == LowerStr(stored_causes[1].description)
        IN /\ \A k \in CauseKeys : (k # key) => knowledge_causes[k] = NoRow
           /\ knowledge_causes[key].evidence_count = 2
           /\ 2 * knowledge_causes[key].avg_trust =
                  stored_causes[1].trust + stored_causes[2].trust

\* C24: merge_text_entities returns canonical entities no two of which share
\* a normalized text, and the evidence_count of each canonical entity is the
\* sum of the evidence_count of the input candidates with that normalized
\* text.
C24_MergeCorrect ==
    /\ \A i, j \in 1..Len(merge_out) :
         i # j => normalize_text(merge_out[i].text)
                    # normalize_text(merge_out[j].text)
    /\ \A i \in 1..Len(merge_out) :
         merge_out[i].evidence_count =
           SumEvidence(SelectSeq(merge_in, LAMBDA c :
             normalize_text(c.text) = normalize_text(merge_out[i].text)))

\* C24 witness: two candidates with different texts and the same normalized
\* text were merged into one entity that carries the evidence of both
C24_Witness ==
    /\ Len(merge_in) = 2
    /\ merge_in[1].text # merge_in[2].text
    /\ merge_in[1].evidence_count = 1
    /\ merge_in[2].evidence_count = 2
    /\ Len(merge_out) = 1
    /\ Len(merge_rejected) = 1
    /\ merge_out[1].evidence_count = 3

\* the entity has a make and the context names another make
MakeMismatch ==
    /\ scored
    /\ score_entity.make_id # ""
    /\ score_ctx.make_id # ""
    /\ score_entity.make_id # score_ctx.make_id

\* C25 (as stated): with a context whose make differs from the entity's make,
\* S is at least 20 points lower than S of the same inputs without context.
C25_MismatchDropsTwenty ==
    MakeMismatch => score_no_ctx - score_with_ctx >= 20 * 6400

\* C25 (amended): with a context whose make differs from the entity's make,
\* S is the no-context S minus 26 points, clamped at 0; it is at least 20
\* points lower exactly when the no-context S is at least 20.
C25_MismatchDropsClamped ==
    MakeMismatch =>
        /\ score_with_ctx = clamp(score_no_ctx - 26 * 6400, 0, 100 * 6400)
        /\ (score_no_ctx - score_with_ctx >= 20 * 6400)
             <=> (score_no_ctx >= 20 * 6400)

\* C25 witness: a mismatching context lowered a positive S by 26 points
C25_Witness ==
    /\ MakeMismatch
    /\ score_with_ctx > 0
    /\ score_no_ctx - score_with_ctx = 26 * 6400

\* C26: for any text and size > overlap >= 0, chunk_text returns N chunks
\* with chunk_index 0..N-1, chunk i starts at i*(size-overlap), every chunk
\* but the last has length size, the last chunk ends at the end of the text,
\* and a non-empty text of length <= size yields exactly one chunk.
C26_ChunkContiguity ==
    chunked =>
      LET N == Len(chunk_rows)
          text == chunk_input.text
          size == chunk_input.size
          overlap == chunk_input.overlap
      IN /\ chunk_returned
         /\ \A i \in 1..N :
              /\ chunk_rows[i].chunk_index = i - 1
              /\ chunk_rows[i].char_start = (i - 1) * (size - overlap)
              /\ chunk_rows[i].content
                   = Slice(text, chunk_rows[i].char_start,
                           chunk_rows[i].char_end)
              /\ i < N => /\ chunk_rows[i].char_end
                               = chunk_rows[i].char_start + size
                          /\ Len(chunk_rows[i].content) = size
         /\ N > 0 => chunk_rows[N].char_end = Len(text)
         /\ (Len(text) > 0 /\ Len(text) <= size) => N = 1

\* C26 witness: a text longer than size was split into overlapping chunks, the
\* last of them shorter than size
C26_Witness ==
    /\ chunked
    /\ chunk_input.overlap > 0
    /\ Len(chunk_rows) >= 2
    /\ Len(chunk_rows[Len(chunk_rows)].content) < chunk_input.size
    /\ chunk_rows[Len(chunk_rows)].char_end = Len(chunk_input.text)

\* the 100-code windows of the ten prefixes
CovWindows ==
    {[prefix |-> DTC_PREFIXES[i].prefix, hundred_start |-> 100 * k,
      hundred_end |-> Min(100 * k + 99, DTC_PREFIXES[i].end)] :
        i \in 1..Len(DTC_PREFIXES), k \in 0..9}
      \ {[prefix |-> "P3", hundred_start |-> 100 * k,
          hundred_end |-> Min(100 * k + 99, 499)] : k \in 5..9}

\* the number of known codes in a window
KnownIn(w) ==
    CountInRange(cov_codes[w.prefix], w.hundred_start, w.hundred_end)

\* the window is in the returned gap list with the given priority
ReportedAs(w, priority) ==
    \E i \in 1..Len(cov_gaps) :
        /\ cov_gaps[i].prefix = w.prefix
        /\ cov_gaps[i].hundred_start = w.hundred_start
        /\ cov_gaps[i].priority = priority

Reported(w) ==
    ReportedAs(w, "high") \/ ReportedAs(w, "medium")

\* C27 (as stated): a window with at least 5 known codes is never reported as
\* a gap, and a window with 0 known codes is always reported with priority
\* high.
C27_GapDetection ==
    cov_done =>
      \A w \in CovWindows :
        /\ KnownIn(w) >= 5 => ~Reported(w)
        /\ KnownIn(w) = 0 => ReportedAs(w, "high")

\* C27 (amended): a window with at least 5 known codes is never reported; a
\* reported window has fewer than 5 known codes and its prefix has more than
\* 10, and its priority is high exactly when it has 0; a window with 0 known
\* codes whose prefix has more than 10 is reported with priority high whenever
\* fewer than 30 gaps are returned.
C27_GapDetectionAmended ==
    cov_done =>
      \A w \in CovWindows :
        /\ KnownIn(w) >= 5 => ~Reported(w)
        /\ Reported(w) =>
             /\ KnownIn(w) < 5
             /\ Cardinality(cov_codes[w.prefix]) > 10
             /\ ReportedAs(w, "high") <=> KnownIn(w) = 0
        /\ (/\ KnownIn(w) = 0
            /\ Cardinality(cov_codes[w.prefix]) > 10
            /\ Len(cov_gaps) < 30) => ReportedAs(w, "high")

\* C27 witness: in one prefix with more than 10 codes a window with 5 codes is
\* not reported, a window with 4 is reported medium and an empty one high
C27_Witness ==
    /\ cov_done
    /\ Cardinality(cov_codes["P0"]) > 10
    /\ \E w \in CovWindows :
         w.prefix = "P0" /\ KnownIn(w) = 5 /\ ~Reported(w)
    /\ \E w \in CovWindows :
         w.prefix = "P0" /\ KnownIn(w) = 4 /\ ReportedAs(w, "medium")
    /\ \E w \in CovWindows :
         w.prefix = "P0" /\ KnownIn(w) = 0 /\ ReportedAs(w, "high")

\* the tasks of a type whose status is pending or in_progress
ActiveTasks(task_type) ==
    {i \in 1..Len(tasks) :
        /\ tasks[i].task_type = task_type
        /\ tasks[i].status \in {"pending", "in_progress"}}

\* the tasks as process_commands leaves them, when act starts
TasksAtAct ==
    process_commands(command_queue, 0,
                     [tasks |-> tasks, research_queue |-> research_queue,
                      audit_queue |-> audit_queue, executed |-> <<>>]).tasks

\* C28: at any time at most one audit task and at most one research task is
\* pending or in_progress, and act creates a task and pushes its directive
\* for a type only when no pending or in_progress task of that type exists.
C28_TaskDedup ==
    /\ [](\A t \in TaskTypes : Cardinality(ActiveTasks(t)) <= 1)
    /\ [][run_cycle =>
            /\ \A i \in (Len(tasks) + 1)..Len(tasks') :
                 /\ ~has_pending_task_of_type(TasksAtAct, tasks'[i].task_type)
                 /\ \A j \in (Len(tasks) + 1)..Len(tasks') :
                      j # i => tasks'[j].task_type # tasks'[i].task_type
            /\ \A i \in (Len(research_queue) + 1)..Len(research_queue') :
                 research_queue'[i].task_id # 0 =>
                   /\ ~has_pending_task_of_type(TasksAtAct, "research")
                   /\ research_queue'[i].task_id \in
                        (Len(tasks) + 1)..Len(tasks')
            /\ \A i \in (Len(audit_queue) + 1)..Len(audit_queue') :
                 audit_queue'[i].task_id # 0 =>
                   /\ ~has_pending_task_of_type(TasksAtAct, "audit")
                   /\ audit_queue'[i].task_id \in
                        (Len(tasks) + 1)..Len(tasks')]_vars

\* C28 witness: a cycle decided a research action while a research task was
\* in progress and created no task for it
C28_Witness ==
    /\ \E i \in 1..Len(decided) : decided[i].type = "research"
    /\ \A i \in 1..Len(executed) : executed[i] # "research"
    /\ Cardinality(ActiveTasks("research")) = 1
    /\ \A i \in 1..Len(tasks) : tasks[i].task_type = "research"
    /\ Len(research_queue) = 1

\* C29: the error boundary marks a document as error only if processing of
\* that document raised in the current iteration; an exception raised while
\* polling the queue changes the stage of no document.
C29_ErrorOnlyForFailedJob ==
    [][\A w \in Workers :
         ErrStage(w) => /\ exc[w] = "poll" => stage' = stage
                        /\ stage' # stage => exc[w] \in {"process", "push"}]_vars

\* C30: the crawler never creates a document whose content hash equals that
\* of an already existing document, under any interleaving of the replicas.
C30_NoDuplicateHash ==
    \A i, j \in 1..Len(documents) :
        i # j => documents[i].content_hash # documents[j].content_hash

\* C31: the reasoning model is asked for an analysis only for alerts that
\* passed the rate-limit gate; while the hourly action limit is reached no
\* alert triggers a model call.
C31_NoModelCallAtLimit ==
    [][\A h \in Healers :
         (\E analysis \in Analyses : Analyze(h, analysis)) => check_rate_limits]_vars

\* C32: chat_completion makes requests at retry depths 0..5 only, and each
\* retry after an HTTP 429 is made with another key than the one that just
\* returned 429.
C32_RetryWithNextKey ==
    /\ Len(request_log) <= MaxRetryDepth + 1
    /\ \A i \in 1..(Len(request_log) - 1) :
         request_log[i][2] = 429 => request_log[i + 1][1] # request_log[i][1]

\* C33: in each orchestrator cycle process_commands consumes at most
\* COMMANDS_PER_CYCLE messages from the commands queue, returns as soon as
\* the queue is empty without blocking, and the same cycle then proceeds to
\* the observe, decide and act phases: every cycle, whatever the length of
\* the commands queue it starts with, ends having observed and acted.
C33_CommandsInbox ==
    [][(run_cycle \/ run_cycle_TimeoutError) =>
         /\ Len(command_queue) - Len(command_queue') <= COMMANDS_PER_CYCLE
         /\ cycle_end' = "acted"
         /\ observed' = get_resource_availability(qdepth)]_vars

(***************************************************************************)
(* Claims about merge_numeric_ranges (specification SpecNum)               *)
(***************************************************************************)
\* the listed fields that every candidate carries
CarriedFields ==
    {f \in {num_fields[i] : i \in 1..Len(num_fields)} :
        \A i \in 1..Len(num_cands) : num_cands[i][f] # NoneValue}

\* C34: whenever merge_numeric_ranges returns conflict_flag = true, every
\* listed *_min field of the result equals the minimum of that field across
\* the candidates and every listed *_max field equals the maximum, whatever
\* the order of the listed fields (stated for the fields every candidate
\* carries).
C34_RangeEnvelope ==
    (num_done /\ num_result.conflict_flag) =>
        \A f \in CarriedFields :
            /\ endswith_min(f) =>
                 num_result.entity[f] = SeqMinimum(FieldValues(num_cands, f, 1))
            /\ endswith_max(f) =>
                 num_result.entity[f] = SeqMaximum(FieldValues(num_cands, f, 1))

\* C35: when make and model match and a context year is given,
\* vehicle_specificity_score returns +20 if the year lies inside the entity's
\* [year_start, year_end] window and -20 if it lies outside it; the upper
\* bound is not enforced only when year_end is absent (and the lower bound
\* only when year_start is absent).
C35_YearRule ==
    (/\ scored
     /\ score_ctx.make_id # "" /\ score_entity.make_id = score_ctx.make_id
     /\ score_ctx.model_id # "" /\ score_entity.model_id = score_ctx.model_id
     /\ score_ctx.year # 0) =>
        LET aboveStart == \/ score_entity.year_start = 0
                          \/ score_entity.year_start <= score_ctx.year
            belowEnd == \/ score_entity.year_end = 0
                        \/ score_ctx.year <= score_entity.year_end
        IN vehicle_specificity_score(score_entity, score_ctx) =
             IF aboveStart /\ belowEnd THEN 20 ELSE -20

(***************************************************************************)
(* Claims about the auditor (specification SpecAudit)                      *)
(***************************************************************************)
\* the pipeline of the audit is degraded: more than 5 stuck documents, or a
\* stage with an error rate above 0.15
PipelineDegraded ==
    \/ audit_input.stuck_count > 5
    \/ \E st \in AuditStages :
         /\ audit_input.rows[st].total > 0
         /\ audit_input.rows[st].failed * 100 > 15 * audit_input.rows[st].total

\* C36: get_pipeline_summary reports `degraded` whenever the stuck-document
\* count is > 5 or any stage's error rate is > 0.15, `busy` when more than 50
\* items are queued in total, and `healthy` otherwise; the report of every
\* audit whose pipeline is degraded holds a fix_pipeline recommendation.
C36_PipelineHealth ==
    audited =>
        /\ PipelineDegraded => audit_health = "degraded"
        /\ (~PipelineDegraded /\ total_queued(audit_input) > 50) =>
             audit_health = "busy"
        /\ (~PipelineDegraded /\ total_queued(audit_input) <= 50) =>
             audit_health = "healthy"
        /\ PipelineDegraded =>
             \E i \in 1..Len(audit_recs) : audit_recs[i] = "fix_pipeline"

(***************************************************************************)
(* Claims about tasks and the agents (specifications SpecAgents, SpecTasks) *)
(***************************************************************************)
\* a directive or a research_complete callback that carries the task id is
\* still queued
TaskInFlight(id) ==
    \/ \E i \in 1..Len(audit_queue) : audit_queue[i].task_id = id
    \/ \E i \in 1..Len(research_queue) : research_queue[i].task_id = id
    \/ \E i \in 1..Len(command_queue) :
         /\ command_queue[i].type = "research_complete"
         /\ command_queue[i].task_id = id

\* C37: every task moved to in_progress eventually reaches completed or
\* failed, given that the auditor and the researcher handle the directive,
\* and so a later action of the same type is dispatched again. In finite
\* runs: once the agent has handled the directive of a task and the
\* orchestrator has consumed the callback, the task is no longer in_progress.
C37_TaskReachesTerminal ==
    \A id \in 1..Len(tasks) :
        tasks[id].status = "in_progress" => TaskInFlight(id)

\* C38: terminal task statuses are absorbing: once a task has status
\* completed, failed or cancelled, no later start_task, complete_task,
\* fail_task or cancel_task call changes its status.
C38_TerminalAbsorbing ==
    [][\A id \in 1..Len(tasks) :
         tasks[id].status \in {"completed", "failed", "cancelled"} =>
           tasks'[id].status = tasks[id].status]_vars

(***************************************************************************)
(* Claims about crawl outcomes (specification SpecCrawl)                   *)
(***************************************************************************)
\* no crawler replica is working on the crawl row
CrawlEnded(j) ==
    \A c \in Crawlers : crawl_pc[c] = "poll" \/ crawl_job[c] # j

\* a document row was created for the crawl row
HasDocument(j) ==
    \E i \in 1..Len(documents) : documents[i].crawl = j

\* C39: a crawl row ends with status `completed` exactly when its document
\* was created and its id pushed to the chunk queue, or the page was skipped
\* as a duplicate (no document created); a crawl row that ends with status
\* `failed` has no document row.
C39_CrawlOutcome ==
    \A j \in CrawlJobs :
        CrawlEnded(j) =>
          /\ crawl_status[j] = "completed" =>
               (HasDocument(j) => j \in chunk_jobs)
          /\ (HasDocument(j) /\ j \in chunk_jobs) =>
               crawl_status[j] = "completed"
          /\ crawl_status[j] = "failed" => ~HasDocument(j)

(***************************************************************************)
(* Claims about the verifier (specification SpecVerifyFair)                *)
(***************************************************************************)
\* C40: every unverified DTC code is eventually selected and verified
\* provided the API answers the requests for it; a code whose attempts fail
\* does not keep the other unverified codes from being selected.
C40_VerifierProgress ==
    \A c \in VerCodes :
        [](c \notin ver_broken) => <>(ver_status[c] # "unverified")

====
